---- MODULE Spec2Model ----
(***************************************************************************)
(* A model of the Wordle solver: the feedback generator, the candidate     *)
(* filter, the four guess-scoring strategies, the solve loop of            *)
(* AbstractStrategy and the Wordle game object it plays against.           *)
(*                                                                         *)
(* A word is a sequence of letters (one-character strings); Python's index *)
(* i (from 0) is the index i + 1 here.  A feedback pattern is a sequence   *)
(* of the symbols "G", "Y" and "_".                                        *)
(***************************************************************************)
EXTENDS Integers, Sequences, FiniteSets, TLC

\* word_length = 5 in _generate_feedback; Wordle's default word_length.
word_length == 5

\* max_attempts = 6 in solve; Wordle's default max_attempts.
max_attempts == 6

\* The largest attempt index a caller passes to choose_best_guess; solve
\* passes 0 to max_attempts - 1.
MaxAttempt == 8

Range(s) == {s[i] : i \in DOMAIN s}

(***************************************************************************)
(* str.lower(): the upper-case letters of the model's alphabet map to      *)
(* their lower-case letters, every other character to itself.              *)
(***************************************************************************)
LowerChar(c) ==
    CASE c = "A" -> "a"
      [] c = "B" -> "b"
      [] c = "C" -> "c"
      [] c = "S" -> "s"
      [] c = "T" -> "t"
      [] OTHER -> c

lower(word) == [i \in 1..Len(word) |-> LowerChar(word[i])]

\* str.isalpha(): a non-empty string of letters only ("1" and "-" stand for
\* the non-alphabetic characters).
isalpha(word) == Len(word) > 0 /\ \A i \in 1..Len(word) : word[i] \notin {"1", "-"}

\* str.count(letter) and `letter in word`.
count(word, letter) == Cardinality({i \in 1..Len(word) : word[i] = letter})

(***************************************************************************)
(* AbstractStrategy._generate_feedback                                     *)
(***************************************************************************)
\* letter_count after the counting loop: the occurrences of each letter of
\* the target word.
LetterCount(target_word) ==
    [char \in Range(target_word) |-> count(target_word, char)]

\* The value of a call: what it returned, or the exception it raised.
Returned(v) == [raised |-> "", value |-> v]
Raised(e) == [raised |-> e, value |-> <<>>]

\* First pass, positions i..word_length: mark the correct positions.  st is
\* [feedback, letter_count].  guess[i] or target_word[i] past the end of the
\* string raises IndexError.
RECURSIVE FirstPass(_, _, _, _)
FirstPass(guess, target_word, i, st) ==
    IF i > word_length THEN Returned(st)
    ELSE IF i > Len(guess) \/ i > Len(target_word) THEN Raised("IndexError")
    ELSE IF guess[i] = target_word[i]
         THEN FirstPass(guess, target_word, i + 1,
                  [feedback |-> [st.feedback EXCEPT ![i] = "G"],
                   letter_count |-> [st.letter_count EXCEPT ![guess[i]] = @ - 1]])
         ELSE FirstPass(guess, target_word, i + 1, st)

\* A second pass that marks every unmarked letter the target holds, without
\* looking at the remaining count.
RECURSIVE SecondPassNoCount(_, _, _)
SecondPassNoCount(guess, i, st) ==
    IF i > word_length THEN st.feedback
    ELSE IF st.feedback[i] = "_" /\ guess[i] \in DOMAIN st.letter_count
         THEN SecondPassNoCount(guess, i + 1,
                  [st EXCEPT !.feedback = [st.feedback EXCEPT ![i] = "Y"]])
         ELSE SecondPassNoCount(guess, i + 1, st)

\* A second pass that runs over the positions from the right: the i-th
\* step looks at position word_length + 1 - i.
RECURSIVE SecondPassBackward(_, _, _)
SecondPassBackward(guess, i, st) ==
    IF i > word_length THEN st.feedback
    ELSE LET k == word_length + 1 - i
         IN  IF /\ st.feedback[k] = "_"
                /\ guess[k] \in DOMAIN st.letter_count
                /\ st.letter_count[guess[k]] > 0
             THEN SecondPassBackward(guess, i + 1,
                      [feedback |-> [st.feedback EXCEPT ![k] = "Y"],
                       letter_count |-> [st.letter_count EXCEPT ![guess[k]] = @ - 1]])
             ELSE SecondPassBackward(guess, i + 1, st)

\* Second pass, positions i..word_length: mark the correct letters in wrong
\* positions while the letter's remaining count is positive.
RECURSIVE SecondPass(_, _, _)
SecondPass(guess, i, st) ==
    IF i > word_length THEN st.feedback
    ELSE IF /\ st.feedback[i] = "_"
            /\ guess[i] \in DOMAIN st.letter_count
            /\ st.letter_count[guess[i]] > 0
         THEN SecondPass(guess, i + 1,
                  [feedback |-> [st.feedback EXCEPT ![i] = "Y"],
                   letter_count |-> [st.letter_count EXCEPT ![guess[i]] = @ - 1]])
         ELSE SecondPass(guess, i + 1, st)

\* The two passes over the lower-cased words.
FeedbackOf(guess, target_word, letter_count) ==
    LET first == FirstPass(guess, target_word, 1,
                     [feedback |-> [i \in 1..word_length |-> "_"],
                      letter_count |-> letter_count])
    IN  IF first.raised # "" THEN first
        ELSE Returned(SecondPass(guess, 1, first.value))

_generate_feedback(guess, target_word) ==
    FeedbackOf(lower(guess), lower(target_word), LetterCount(lower(target_word)))

(***************************************************************************)
(* AbstractStrategy._reduce_words_space                                    *)
(***************************************************************************)
\* First pass, feedback positions i..: keep the words with the guess's
\* letter at each 'G' position.
RECURSIVE GreenPass(_, _, _, _)
GreenPass(guess, feedback, i, new_word_space) ==
    IF i > Len(feedback) THEN new_word_space
    ELSE IF feedback[i] = "G"
         THEN GreenPass(guess, feedback, i + 1,
                  SelectSeq(new_word_space, LAMBDA word : guess[i] = word[i]))
         ELSE GreenPass(guess, feedback, i + 1, new_word_space)

\* Second pass: keep the words that hold the letter of each 'Y' position,
\* but not at that position.
RECURSIVE YellowPass(_, _, _, _)
YellowPass(guess, feedback, i, new_word_space) ==
    IF i > Len(feedback) THEN new_word_space
    ELSE IF feedback[i] = "Y"
         THEN YellowPass(guess, feedback, i + 1,
                  SelectSeq(new_word_space,
                      LAMBDA word : guess[i] \in Range(word) /\ guess[i] # word[i]))
         ELSE YellowPass(guess, feedback, i + 1, new_word_space)

\* list.remove(word): the list without the first element equal to word.
RECURSIVE remove(_, _)
remove(list, word) ==
    IF list = <<>> THEN <<>>
    ELSE IF Head(list) = word THEN Tail(list)
    ELSE <<Head(list)>> \o remove(Tail(list), word)

\* A removal loop that also takes out the words that hold the gray letter
\* exactly as often as it is marked green or yellow.
RECURSIVE RemoveLoopAtLeast(_, _, _, _, _)
RemoveLoopAtLeast(copy, k, new_word_space, gray_letter, green_yellow_count) ==
    IF k > Len(copy) THEN new_word_space
    ELSE IF count(copy[k], gray_letter) >= green_yellow_count
         THEN RemoveLoopAtLeast(copy, k + 1, remove(new_word_space, copy[k]),
                                gray_letter, green_yellow_count)
         ELSE RemoveLoopAtLeast(copy, k + 1, new_word_space,
                                gray_letter, green_yellow_count)

\* for word in new_word_space.copy(): remove the word when it holds the gray
\* letter more often than the letter is marked green or yellow.
RECURSIVE RemoveLoop(_, _, _, _, _)
RemoveLoop(copy, k, new_word_space, gray_letter, green_yellow_count) ==
    IF k > Len(copy) THEN new_word_space
    ELSE IF count(copy[k], gray_letter) > green_yellow_count
         THEN RemoveLoop(copy, k + 1, remove(new_word_space, copy[k]),
                         gray_letter, green_yellow_count)
         ELSE RemoveLoop(copy, k + 1, new_word_space,
                         gray_letter, green_yellow_count)

\* A gray step that takes every gray letter to be absent from the word.
GrayStepAbsent(guess, feedback, gray_letter, new_word_space) ==
    SelectSeq(new_word_space, LAMBDA word : gray_letter \notin Range(word))

\* The body of the loop over the gray letters, for one gray letter.
GrayStep(guess, feedback, gray_letter, new_word_space) ==
    LET green_yellow_count ==
            Cardinality({i \in 1..Len(feedback) :
                            feedback[i] \in {"G", "Y"} /\ guess[i] = gray_letter})
    IN  IF green_yellow_count = 0
        THEN SelectSeq(new_word_space, LAMBDA word : gray_letter \notin Range(word))
        ELSE RemoveLoop(new_word_space, 1, new_word_space,
                        gray_letter, green_yellow_count)

\* Third pass: the loop over the set of gray letters.
RECURSIVE GrayPass(_, _, _, _)
GrayPass(guess, feedback, gray_letters, new_word_space) ==
    IF gray_letters = {} THEN new_word_space
    ELSE LET gray_letter == CHOOSE c \in gray_letters : TRUE
         IN  GrayPass(guess, feedback, gray_letters \ {gray_letter},
                      GrayStep(guess, feedback, gray_letter, new_word_space))

\* A filter that rebuilds its result from the set of the kept words.
RECURSIVE SetToList(_)
SetToList(S) ==
    IF S = {} THEN <<>>
    ELSE LET x == CHOOSE y \in S : TRUE IN SetToList(S \ {x}) \o <<x>>

ReduceOfUnordered(guess, possible_words, feedback) ==
    SetToList(Range(
        GrayPass(guess, feedback,
            {guess[i] : i \in {j \in 1..Len(feedback) : feedback[j] = "_"}},
            YellowPass(guess, feedback, 1,
                GreenPass(guess, feedback, 1, possible_words)))))

ReduceOf(guess, possible_words, feedback) ==
    LET greens == GreenPass(guess, feedback, 1, possible_words)
        yellows == YellowPass(guess, feedback, 1, greens)
        gray_letters == {guess[i] : i \in {j \in 1..Len(feedback) : feedback[j] = "_"}}
    IN  GrayPass(guess, feedback, gray_letters, yellows)

_reduce_words_space(guess, possible_words, feedback) ==
    ReduceOf(lower(guess), possible_words, feedback)

(***************************************************************************)
(* Wordle: the game object.  A game is the record of its fields.           *)
(***************************************************************************)
\* Wordle.__init__ / reset_game with a target word: no attempts, no guesses.
Wordle(word_list, target_word_list, target) ==
    [word_length |-> 5, max_attempts |-> 6, attempts |-> 0,
     guesses |-> <<>>, feedbacks |-> <<>>,
     word_list |-> word_list, target_word_list |-> target_word_list,
     target_word |-> target]

\* Wordle.is_valid_word
is_valid_word(game, word) == lower(word) \in game.word_list

\* Wordle.generate_feedback, first pass over positions i..word_length.
RECURSIVE WordleFirstPass(_, _, _, _)
WordleFirstPass(game, guess, i, st) ==
    IF i > game.word_length THEN Returned(st)
    ELSE IF i > Len(guess) \/ i > Len(game.target_word) THEN Raised("IndexError")
    ELSE IF guess[i] = game.target_word[i]
         THEN WordleFirstPass(game, guess, i + 1,
                  [feedback |-> [st.feedback EXCEPT ![i] = "G"],
                   letter_count |-> [st.letter_count EXCEPT ![guess[i]] = @ - 1]])
         ELSE WordleFirstPass(game, guess, i + 1, st)

\* Wordle.generate_feedback, second pass over positions i..word_length.
RECURSIVE WordleSecondPass(_, _, _, _)
WordleSecondPass(game, guess, i, st) ==
    IF i > game.word_length THEN st.feedback
    ELSE IF /\ st.feedback[i] = "_"
            /\ guess[i] \in DOMAIN st.letter_count
            /\ st.letter_count[guess[i]] > 0
         THEN WordleSecondPass(game, guess, i + 1,
                  [feedback |-> [st.feedback EXCEPT ![i] = "Y"],
                   letter_count |-> [st.letter_count EXCEPT ![guess[i]] = @ - 1]])
         ELSE WordleSecondPass(game, guess, i + 1, st)

\* Wordle.generate_feedback: the target word is taken as it is stored.
generate_feedback(game, guess) ==
    LET first == WordleFirstPass(game, guess, 1,
                     [feedback |-> [i \in 1..game.word_length |-> "_"],
                      letter_count |-> LetterCount(game.target_word)])
    IN  IF first.raised # "" THEN first
        ELSE Returned(WordleSecondPass(game, guess, 1, first.value))

\* What make_guess hands back, with the game as the call left it.
Reply(game, is_correct, feedback, error_msg, raised) ==
    [game |-> game, is_correct |-> is_correct, feedback |-> feedback,
     error_msg |-> error_msg, raised |-> raised]

\* A make_guess that records a guess whatever the validation says.
make_guess_recording(game, guess_arg) ==
    LET guess == lower(guess_arg)
        recorded == [game EXCEPT !.attempts = @ + 1, !.guesses = Append(@, guess)]
    IN  IF Len(guess) # game.word_length
        THEN Reply(recorded, FALSE, <<>>, "Invalid word length", "")
        ELSE IF ~isalpha(guess)
        THEN Reply(recorded, FALSE, <<>>, "Word contains non-alphabetic characters", "")
        ELSE IF ~is_valid_word(game, guess)
        THEN Reply(recorded, FALSE, <<>>, "Word not in dictionary", "")
        ELSE LET fb == generate_feedback(recorded, guess)
             IN  Reply([recorded EXCEPT !.feedbacks = Append(@, fb.value)],
                       guess = game.target_word, fb.value, "", "")

\* Wordle.make_guess.  None has no lower(): AttributeError.
make_guess(game, guess_arg) ==
    IF guess_arg = <<"None">> THEN Reply(game, FALSE, <<>>, "", "AttributeError")
    ELSE
    LET guess == lower(guess_arg) IN
    IF Len(guess) # game.word_length
    THEN Reply(game, FALSE, <<>>, "Invalid word length", "")
    ELSE IF ~isalpha(guess)
    THEN Reply(game, FALSE, <<>>, "Word contains non-alphabetic characters", "")
    ELSE IF ~is_valid_word(game, guess)
    THEN Reply(game, FALSE, <<>>, "Word not in dictionary", "")
    ELSE
    LET recorded == [game EXCEPT !.attempts = @ + 1, !.guesses = Append(@, guess)]
        fb == generate_feedback(recorded, guess)
    IN  IF fb.raised # "" THEN Reply(recorded, FALSE, <<>>, "", fb.raised)
        ELSE Reply([recorded EXCEPT !.feedbacks = Append(@, fb.value)],
                   guess = game.target_word, fb.value, "", "")

(***************************************************************************)
(* The strategies' choose_best_guess.  self is the record of the fields    *)
(* vocabulary and previous_guesses.                                        *)
(***************************************************************************)
\* feedback_patterns after the loop over possible_words: each pattern the
\* candidate word produces, with the number of words that produce it.
FeedbackPatterns(candidate_word, possible_words) ==
    LET pattern(k) == _generate_feedback(candidate_word, possible_words[k]).value
    IN  [p \in {pattern(k) : k \in 1..Len(possible_words)} |->
            Cardinality({k \in 1..Len(possible_words) : pattern(k) = p})]

\* max(...) over the values of a non-empty dict.
MaxValue(dict) == CHOOSE m \in Range(dict) : \A n \in Range(dict) : n <= m

\* A loop that takes a candidate whose worst case is as good as the best so
\* far: on ties the last word in vocabulary order is kept.
RECURSIVE MinimaxLoopLast(_, _, _, _)
MinimaxLoopLast(self, possible_words, k, best) ==
    IF k > Len(self.vocabulary) THEN Returned(best.best_guess)
    ELSE LET candidate_word == self.vocabulary[k] IN
         IF candidate_word \in self.previous_guesses
         THEN MinimaxLoopLast(self, possible_words, k + 1, best)
         ELSE IF possible_words = <<>> THEN Raised("ValueError")
         ELSE LET worst_case == MaxValue(FeedbackPatterns(candidate_word, possible_words))
              IN  IF best.is_inf \/ worst_case <= best.best_worst_case
                  THEN MinimaxLoopLast(self, possible_words, k + 1,
                           [is_inf |-> FALSE, best_worst_case |-> worst_case,
                            best_guess |-> candidate_word])
                  ELSE MinimaxLoopLast(self, possible_words, k + 1, best)

\* MinimaxBasedStrategy: the loop over vocabulary[k..].  best is
\* [best_worst_case, best_guess]; best_guess None goes with float('inf').
\* max() of no pattern at all raises ValueError.
RECURSIVE MinimaxLoop(_, _, _, _)
MinimaxLoop(self, possible_words, k, best) ==
    IF k > Len(self.vocabulary) THEN Returned(best.best_guess)
    ELSE LET candidate_word == self.vocabulary[k] IN
         IF candidate_word \in self.previous_guesses
         THEN MinimaxLoop(self, possible_words, k + 1, best)
         ELSE IF possible_words = <<>> THEN Raised("ValueError")
         ELSE LET worst_case == MaxValue(FeedbackPatterns(candidate_word, possible_words))
              IN  IF best.is_inf \/ worst_case < best.best_worst_case
                  THEN MinimaxLoop(self, possible_words, k + 1,
                           [is_inf |-> FALSE, best_worst_case |-> worst_case,
                            best_guess |-> candidate_word])
                  ELSE MinimaxLoop(self, possible_words, k + 1, best)

\* A choose_best_guess for Minimax without the single-candidate fast path.
MinimaxChooseScanning(self, possible_words, attempts) ==
    IF attempts = 0 THEN Returned(<<"s", "e", "r", "a", "i">>)
    ELSE MinimaxLoop(self, possible_words, 1,
             [is_inf |-> TRUE, best_worst_case |-> 0, best_guess |-> <<"None">>])

\* MinimaxBasedStrategy.choose_best_guess
MinimaxChoose(self, possible_words, attempts) ==
    IF attempts = 0 THEN Returned(<<"s", "e", "r", "a", "i">>)
    ELSE IF Len(possible_words) = 1 THEN Returned(possible_words[1])
    ELSE MinimaxLoop(self, possible_words, 1,
             [is_inf |-> TRUE, best_worst_case |-> 0, best_guess |-> <<"None">>])

(***************************************************************************)
(* Entropy.  With N words in the pool and groups of n_1..n_K words,        *)
(*   expected_entropy = -SUM (n_k/N) * log2(n_k/N + 1e-10)                 *)
(*                    = log2 N - (1/N) * log2(PROD (n_k + N*1e-10)^n_k),   *)
(* so for one pool a candidate's entropy is greater exactly when its       *)
(* product PROD n_k^n_k is smaller, or the products are equal and it has   *)
(* fewer groups (the epsilon adds about 1.44e-10 per group).  The model    *)
(* keeps the pair (product, groups) in place of the floating-point sum.    *)
(* Every entropy is above -1e-9, so the first candidate always beats the   *)
(* initial best of -1.                                                     *)
(***************************************************************************)
RECURSIVE Power(_, _)
Power(n, e) == IF e = 0 THEN 1 ELSE n * Power(n, e - 1)

RECURSIVE SelfPowerProduct(_, _)
SelfPowerProduct(dict, patterns) ==
    IF patterns = {} THEN 1
    ELSE LET p == CHOOSE q \in patterns : TRUE
         IN  Power(dict[p], dict[p]) * SelfPowerProduct(dict, patterns \ {p})

\* The entropy of a candidate word, as the pair that orders it.
ExpectedEntropy(candidate_word, possible_words) ==
    LET feedback_patterns == FeedbackPatterns(candidate_word, possible_words)
    IN  [product |-> SelfPowerProduct(feedback_patterns, DOMAIN feedback_patterns),
         groups |-> Cardinality(DOMAIN feedback_patterns)]

\* expected_entropy > best_expected_entropy
EntropyGreater(e, best) ==
    \/ e.product < best.product
    \/ e.product = best.product /\ e.groups < best.groups

\* EntropyBasedStrategy: the loop over vocabulary[k..].
RECURSIVE EntropyLoop(_, _, _, _)
EntropyLoop(self, possible_words, k, best) ==
    IF k > Len(self.vocabulary) THEN Returned(best.best_guess)
    ELSE LET candidate_word == self.vocabulary[k] IN
         IF candidate_word \in self.previous_guesses
         THEN EntropyLoop(self, possible_words, k + 1, best)
         ELSE LET expected_entropy == ExpectedEntropy(candidate_word, possible_words)
              IN  IF best.is_initial \/ EntropyGreater(expected_entropy, best.entropy)
                  THEN EntropyLoop(self, possible_words, k + 1,
                           [is_initial |-> FALSE, entropy |-> expected_entropy,
                            best_guess |-> candidate_word])
                  ELSE EntropyLoop(self, possible_words, k + 1, best)

\* A choose_best_guess that, after the opening, returns the first word of
\* the vocabulary whether or not it was guessed before.
EntropyChooseFirst(self, possible_words, attempts) ==
    IF attempts = 0 THEN Returned(<<"t", "a", "r", "e", "s">>)
    ELSE IF self.vocabulary = <<>> THEN Returned(<<"None">>)
    ELSE Returned(self.vocabulary[1])

\* EntropyBasedStrategy.choose_best_guess
EntropyChoose(self, possible_words, attempts) ==
    IF attempts = 0 THEN Returned(<<"t", "a", "r", "e", "s">>)
    ELSE IF Len(possible_words) = 1 THEN Returned(possible_words[1])
    ELSE EntropyLoop(self, possible_words, 1,
             [is_initial |-> TRUE, entropy |-> [product |-> 0, groups |-> 0],
              best_guess |-> <<"None">>])

(***************************************************************************)
(* Doubles.  Python's float is the IEEE double.  The numbers the           *)
(* strategies compute are doubles close to a fraction n/m: the frequency   *)
(* score to a whole number of 1/625, the hybrid weights to a whole number  *)
(* of tenths.  Such a double is the record [n, d] that stands for          *)
(*        x = n / m + d / (den * 2^power),                                 *)
(* where den is the odd part of m (625 and 5) and 2^-power is the spacing  *)
(* of the smallest doubles that occur (2^-54 and 2^-56): d is the          *)
(* double's distance from the fraction.  A double in [2^b, 2^(b+1)) is a   *)
(* multiple of 2^(b-52), that is of U units of 2^-power, so d is a         *)
(* multiple of U with d = -n * (m / den) * 2^power / m modulo den.  An     *)
(* operation gives the double of that kind nearest to its exact result,    *)
(* and on a tie the one whose last bit is 0.  The numbers stay small: the  *)
(* doubles are below 2^7 spacings of the smallest ones.                    *)
(***************************************************************************)
RECURSIVE PowMod(_, _, _)
PowMod(base, e, m) == IF e = 0 THEN 1 % m ELSE (base * PowMod(base, e - 1, m)) % m

\* The doubles near the multiples of 1/625 from 0.25 up: units of 2^-54.
\* n/625 is below 2^-1 when 2 * n < 625.
Grid625 == [den |-> 625, scale |-> 2, residue |-> PowMod(2, 54, 625),
            half |-> 313, inverse |-> PowMod(625, 127, 256)]

\* The doubles near the multiples of 1/10 from 0.0625 up: units of 2^-56.
\* n/10 is below 2^-3 when 4 * n < 5, and x * 2^56 is n * 2^55 / 5 + d / 5.
Grid10 == [den |-> 5, scale |-> 4, residue |-> PowMod(2, 55, 5),
           half |-> 3, inverse |-> PowMod(5, 127, 256)]

\* The spacing U of the doubles around the fraction n/m (just below it
\* when below is TRUE), with the inverse of U modulo den.
RECURSIVE UlpFrom(_, _, _, _, _)
UlpFrom(grid, n, below, U, inverse) ==
    IF grid.scale * n < grid.den * U \/ (grid.scale * n = grid.den * U /\ below)
    THEN [U |-> U, inverse |-> inverse]
    ELSE UlpFrom(grid, n, below, 2 * U, (inverse * grid.half) % grid.den)

\* The last bit of the double [n, d], a multiple of U units.
LastBit(grid, d, U) == ((d * grid.inverse) % (2 * U)) \div U

\* The double nearest to the fraction n/m plus q / qd units of
\* 1/(den * 2^power) plus tiny, where tiny is smaller than any difference
\* of the others and only its sign is given.  n is not negative.
RoundToDouble(grid, n, q, qd, tiny) ==
    LET below == q < 0 \/ (q = 0 /\ tiny < 0)
        ulp == UlpFrom(grid, n, below, 1, 1)
        residue == (grid.den - ((n * grid.residue) % grid.den)) % grid.den
        first == ulp.U * ((residue * ulp.inverse) % grid.den)
        step == grid.den * ulp.U
        down == first + step * ((q - qd * first) \div (qd * step))
        up == down + step
        side == 2 * q - qd * (down + up)
    IN  [n |-> n,
         d |-> IF side < 0 \/ (side = 0 /\ tiny < 0) THEN down
               ELSE IF side > 0 \/ (side = 0 /\ tiny > 0) THEN up
               ELSE IF LastBit(grid, down, ulp.U) = 0 THEN down ELSE up]

Sign(i) == IF i > 0 THEN 1 ELSE IF i < 0 THEN -1 ELSE 0

\* x > y, x >= y, for two doubles of one grid.
DoubleGreater(x, y) == x.n > y.n \/ (x.n = y.n /\ x.d > y.d)
DoubleAtLeast(x, y) == x = y \/ DoubleGreater(x, y)

\* score += amount, for a whole amount and a score near n/625.
DoubleAdd(score, amount) ==
    IF amount = 0 \/ score.d = 0 THEN [n |-> score.n + 625 * amount, d |-> score.d]
    ELSE RoundToDouble(Grid625, score.n + 625 * amount, score.d, 1, 0)

\* score *= 0.8.  The double 0.8 is (4 * 2^54 + 4) / (5 * 2^54), so the
\* exact product of x is 4/5 of x and 4/5 of x * 2^-54 more.
DoubleTimes08(score) ==
    IF score.n = 0 THEN score
    ELSE RoundToDouble(Grid625, (score.n * 4) \div 5, 4 * (score.d + score.n), 5,
                       Sign(score.d))

\* The double of the literal k/10 (0.1, 0.3, 0.7, 0.9).
Tenths(k) == RoundToDouble(Grid10, k, 0, 1, 0)

\* whole * 0.1: the exact product is whole/10 and whole times the distance
\* of the double 0.1 from 1/10.
DoubleTimesTenth(whole) == RoundToDouble(Grid10, whole, whole * Tenths(1).d, 1, 0)

\* x + y and x - y for doubles near tenths; a negative difference is kept
\* as its fraction alone.
DoublePlus(x, y) == RoundToDouble(Grid10, x.n + y.n, x.d + y.d, 1, 0)
DoubleMinus(x, y) ==
    IF x.n - y.n < 0 THEN [n |-> x.n - y.n, d |-> 0]
    ELSE RoundToDouble(Grid10, x.n - y.n, x.d - y.d, 1, 0)

\* The weights left as they are, not divided by their total.
DoubleDivideNone(x, total) == x

\* x / total for a total near 1 = 1 + e: the exact quotient is
\* x - x * e + x * e^2 - ..., and x * e is x.n * total.d / 10 units.
DoubleDivide(x, total) ==
    IF total.d = 0 THEN x
    ELSE RoundToDouble(Grid10, x.n, 10 * x.d - x.n * total.d, 10,
                       Sign(x.n * total.d * total.d - 10 * x.d * total.d))

(***************************************************************************)
(* Frequency.  The score is a double; its exact part n is a whole number   *)
(* of 1/625: a word has at most four repeated letters, and each multiplies *)
(* the score by 4/5.                                                       *)
(***************************************************************************)
\* position_frequencies[position][letter]
PositionFrequency(possible_words, position, letter) ==
    Cardinality({k \in 1..Len(possible_words) :
                    /\ position <= Len(possible_words[k])
                    /\ possible_words[k][position] = letter})

\* The score loop over the positions position..Len(candidate_word); the
\* letters before position are the seen letters.
RECURSIVE FrequencyScore(_, _, _, _)
FrequencyScore(candidate_word, possible_words, position, score) ==
    IF position > Len(candidate_word) THEN score
    ELSE LET letter == candidate_word[position]
             added == DoubleAdd(score, PositionFrequency(possible_words, position, letter))
             seen_letters == {candidate_word[j] : j \in 1..(position - 1)}
         IN  FrequencyScore(candidate_word, possible_words, position + 1,
                 IF letter \in seen_letters THEN DoubleTimes08(added) ELSE added)

\* FrequencyBasedStrategy: the loop over vocabulary[k..]; best_score starts
\* at -1, below every score.
RECURSIVE FrequencyLoop(_, _, _, _)
FrequencyLoop(self, possible_words, k, best) ==
    IF k > Len(self.vocabulary) THEN Returned(best.best_guess)
    ELSE LET candidate_word == self.vocabulary[k] IN
         IF candidate_word \in self.previous_guesses
         THEN FrequencyLoop(self, possible_words, k + 1, best)
         ELSE LET score == FrequencyScore(candidate_word, possible_words, 1,
                                          [n |-> 0, d |-> 0])
              IN  IF DoubleGreater(score, best.best_score)
                  THEN FrequencyLoop(self, possible_words, k + 1,
                           [best_score |-> score, best_guess |-> candidate_word])
                  ELSE FrequencyLoop(self, possible_words, k + 1, best)

\* A choose_best_guess that scores at every attempt index, the first
\* included.
FrequencyChooseScoring(self, possible_words, attempts) ==
    IF Len(possible_words) = 1 THEN Returned(possible_words[1])
    ELSE FrequencyLoop(self, possible_words, 1,
             [best_score |-> [n |-> -625, d |-> 0], best_guess |-> <<"None">>])

\* FrequencyBasedStrategy.choose_best_guess
FrequencyChoose(self, possible_words, attempts) ==
    IF attempts = 0 THEN Returned(<<"c", "a", "r", "e", "s">>)
    ELSE IF Len(possible_words) = 1 THEN Returned(possible_words[1])
    ELSE FrequencyLoop(self, possible_words, 1,
             [best_score |-> [n |-> -625, d |-> 0], best_guess |-> <<"None">>])

(***************************************************************************)
(* Hybrid.  Scores are fixed-point: the frequency score in 1/625, the      *)
(* entropy as N * expected_entropy in 1/1000 bit (N the pool size, the     *)
(* same for every candidate, so it cancels in the normalisation), the      *)
(* normalised scores in 1/1000 and the weights doubles near the tenths.     *)
(***************************************************************************)
\* 1000 * log2(n) for n a product of 2, 3, 5 and 7.
RECURSIVE Log2Milli(_)
Log2Milli(n) ==
    IF n <= 1 THEN 0
    ELSE IF n % 2 = 0 THEN 1000 + Log2Milli(n \div 2)
    ELSE IF n % 3 = 0 THEN 1585 + Log2Milli(n \div 3)
    ELSE IF n % 5 = 0 THEN 2322 + Log2Milli(n \div 5)
    ELSE 2807 + Log2Milli(n \div 7)

\* N * expected_entropy, in 1/1000 bit.
EntropyMilli(candidate_word, possible_words) ==
    Len(possible_words) * Log2Milli(Len(possible_words))
        - Log2Milli(ExpectedEntropy(candidate_word, possible_words).product)

MinOf(scores) == CHOOSE m \in Range(scores) : \A n \in Range(scores) : m <= n
MaxOf(scores) == CHOOSE m \in Range(scores) : \A n \in Range(scores) : n <= m

\* The scoring loop over vocabulary[k..]: the scores and the word of every
\* candidate not yet guessed are appended to the three lists of lists.
RECURSIVE HybridScores(_, _, _, _)
HybridScores(self, possible_words, k, lists) ==
    IF k > Len(self.vocabulary) THEN lists
    ELSE LET candidate_word == self.vocabulary[k] IN
         IF candidate_word \in self.previous_guesses
         THEN HybridScores(self, possible_words, k + 1, lists)
         ELSE HybridScores(self, possible_words, k + 1,
                  [frequency_scores |->
                       Append(lists.frequency_scores,
                              FrequencyScore(candidate_word, possible_words, 1,
                                             [n |-> 0, d |-> 0]).n),
                   entropy_scores |->
                       Append(lists.entropy_scores,
                              EntropyMilli(candidate_word, possible_words)),
                   candidate_words |-> Append(lists.candidate_words, candidate_word)])

\* normalized_freq_scores / normalized_entropy_scores
Normalized(scores) ==
    LET min_score == MinOf(scores)
        max_score == MaxOf(scores)
    IN  IF max_score > min_score
        THEN [i \in 1..Len(scores) |->
                 ((scores[i] - min_score) * 1000) \div (max_score - min_score)]
        ELSE [i \in 1..Len(scores) |-> 1000]

\* max(x, y) and min(x, y) of Python: the first argument unless the second
\* is greater, or smaller.
DoubleMax(x, y) == IF DoubleGreater(y, x) THEN y ELSE x
DoubleMin(x, y) == IF DoubleGreater(x, y) THEN y ELSE x

\* entropy_weight and frequency_weight before the division by their total.
RawWeights(attempts) ==
    [entropy_weight |->
         DoubleMax(DoubleMinus(Tenths(7), DoubleTimesTenth(attempts)), Tenths(1)),
     frequency_weight |->
         DoubleMin(DoublePlus(Tenths(3), DoubleTimesTenth(attempts)), Tenths(9))]

\* entropy_weight and frequency_weight after the division by their total.
HybridWeights(attempts) ==
    LET raw == RawWeights(attempts)
        total == DoublePlus(raw.entropy_weight, raw.frequency_weight)
    IN  [entropy_weight |-> DoubleDivide(raw.entropy_weight, total),
         frequency_weight |-> DoubleDivide(raw.frequency_weight, total)]

\* entropy_weight and frequency_weight as the loop uses them: the tenths
\* and the distance of the double from them in units of 2^-56 / 10, the
\* values of HybridWeights written out (0.7 - 2 * 0.1 is
\* 0.49999999999999994, not 0.5).
EntropyWeight(attempts) ==
    [tenths |-> IF 7 - attempts > 1 THEN 7 - attempts ELSE 1,
     deviation |-> CASE attempts = 0 -> -32 [] attempts = 1 -> -16
                     [] attempts = 2 -> -40 [] attempts = 3 -> -64
                     [] attempts = 4 -> -8  [] attempts = 5 -> -32
                     [] OTHER -> 4]

FrequencyWeight(attempts) ==
    [tenths |-> IF 3 + attempts < 9 THEN 3 + attempts ELSE 9,
     deviation |-> CASE attempts = 0 -> -8 [] attempts = 1 -> 16
                     [] attempts = 2 -> 0  [] attempts = 3 -> 64
                     [] attempts = 4 -> 48 [] attempts = 5 -> 32
                     [] OTHER -> 16]

\* hybrid_score > best_hybrid_score: by value, and at equal value by the
\* part the weights' deviations contribute.
HybridGreater(score, best) ==
    \/ score.value > best.value
    \/ score.value = best.value /\ score.deviation > best.deviation

\* The final loop over candidate_words[i..]; best_hybrid_score starts at
\* -1, below every score.
RECURSIVE HybridLoop(_, _, _, _, _, _)
HybridLoop(candidate_words, normalized_freq, normalized_entropy, attempts, i, best) ==
    IF i > Len(candidate_words) THEN Returned(best.best_guess)
    ELSE LET entropy_weight == EntropyWeight(attempts)
             frequency_weight == FrequencyWeight(attempts)
             hybrid_score ==
                 [value |-> frequency_weight.tenths * normalized_freq[i]
                              + entropy_weight.tenths * normalized_entropy[i],
                  deviation |->
                      frequency_weight.deviation * normalized_freq[i]
                          + entropy_weight.deviation * normalized_entropy[i]]
         IN  IF HybridGreater(hybrid_score, best.best_hybrid_score)
             THEN HybridLoop(candidate_words, normalized_freq, normalized_entropy,
                             attempts, i + 1,
                             [best_hybrid_score |-> hybrid_score,
                              best_guess |-> candidate_words[i]])
             ELSE HybridLoop(candidate_words, normalized_freq, normalized_entropy,
                             attempts, i + 1, best)

\* HybridStrategy.choose_best_guess.  min() of no score raises ValueError.
HybridChoose(self, possible_words, attempts) ==
    IF attempts = 0 THEN Returned(<<"t", "a", "r", "e", "s">>)
    ELSE IF Len(possible_words) = 1 THEN Returned(possible_words[1])
    ELSE
    LET lists == HybridScores(self, possible_words, 1,
                     [frequency_scores |-> <<>>, entropy_scores |-> <<>>,
                      candidate_words |-> <<>>])
    IN  IF lists.candidate_words = <<>> THEN Raised("ValueError")
        ELSE HybridLoop(lists.candidate_words,
                        Normalized(lists.frequency_scores),
                        Normalized(lists.entropy_scores), attempts, 1,
                        [best_hybrid_score |-> [value |-> -1, deviation |-> 0],
                         best_guess |-> <<"None">>])

\* choose_best_guess of the strategy class in use.
choose_best_guess(strategy, self, possible_words, attempts) ==
    CASE strategy = "entropy" -> EntropyChoose(self, possible_words, attempts)
      [] strategy = "minimax" -> MinimaxChoose(self, possible_words, attempts)
      [] strategy = "frequency" -> FrequencyChoose(self, possible_words, attempts)
      [] strategy = "hybrid" -> HybridChoose(self, possible_words, attempts)

(***************************************************************************)
(* State.  pc is the position of the running call.  The variables named    *)
(* after the fields and locals of the source hold their values.            *)
(***************************************************************************)
VARIABLES
    pc,               \* position in the running call
    guess,            \* the guess argument / solve's local guess
    target_word,      \* the target_word argument of _generate_feedback
    possible_words,   \* the candidate pool
    feedback,         \* the feedback pattern in hand
    new_word_space,   \* what _reduce_words_space returned
    result,           \* what _generate_feedback returned or raised
    strategy,         \* the strategy class of the solver
    vocabulary,       \* self.vocabulary
    previous_guesses, \* self.previous_guesses
    attempts,         \* solve's local attempts
    final_guess,      \* solve's local final_guess
    game,             \* the Wordle object
    reply,            \* what the last make_guess returned or raised
    ret,              \* what solve returned
    calls,            \* history: calls of game.make_guess in this solve
    rejected,         \* history: those of them that returned an error_msg
    own_guesses,      \* history: the words this solve added to previous_guesses
    other,            \* the locals of a second solve on the same strategy
    evaluation        \* evaluate_strategy's locals: target_words, results

pureVars == <<target_word, new_word_space, result>>

solveVars == <<strategy, vocabulary, previous_guesses, attempts, final_guess,
               game, reply, ret, calls, rejected, own_guesses, other,
               evaluation>>

vars == <<pc, guess, target_word, possible_words, feedback, new_word_space,
          result, strategy, vocabulary, previous_guesses, attempts,
          final_guess, game, reply, ret, calls, rejected, own_guesses, other,
          evaluation>>

\* Python's None, where a word is expected.
None == <<"None">>

\* No make_guess has returned yet.
NoReply == Reply(Wordle({}, <<>>, None), FALSE, <<>>, "", "")

\* No solve has returned yet.
NoReturn == [word |-> None, attempts |-> -1]

\* No second solve runs.
NoOther == [pc |-> "none"]

\* evaluate_strategy is not running.
NoEvaluation == [pc |-> "none"]

\* The solver's variables where no solver runs.
NoSolver ==
    /\ strategy = "none"
    /\ vocabulary = <<>>
    /\ previous_guesses = {}
    /\ attempts = 0
    /\ final_guess = None
    /\ game = Wordle({}, <<>>, None)
    /\ reply = NoReply
    /\ ret = NoReturn
    /\ calls = 0
    /\ rejected = 0
    /\ own_guesses = {}
    /\ other = NoOther
    /\ evaluation = NoEvaluation

\* The pure functions' variables where the solver runs.
NoPureCall ==
    /\ target_word = None
    /\ new_word_space = <<>>
    /\ result = Returned(<<>>)

(***************************************************************************)
(* Inputs of the pure functions.                                           *)
(***************************************************************************)
\* The alphabet the five-letter inputs are written in.
Letters == {"a", "b", "c"}

\* Every five-letter lower-case word over Letters.
Words == [1..word_length -> Letters]

\* Strings that are not five lower-case letters: too short, too long, and
\* with upper-case letters.
OtherStrings ==
    { <<"a", "b", "c", "a">>,
      <<"a", "b", "c", "a", "b", "c">>,
      <<"a", "b", "a", "b", "a", "b">>,
      <<>>,
      <<"A", "a", "b", "B", "c">>,
      <<"C", "A", "B", "A", "c">> }

\* Two five-letter words of five different letters, each the other read
\* backwards.
ExampleWords ==
    { <<"a", "b", "c", "d", "e">>,
      <<"e", "d", "c", "b", "a">> }

\* The words the pools of the filter's calls are made of.
PoolWords ==
    { <<"a", "a", "b", "b", "c">>,
      <<"a", "a", "b", "c", "c">>,
      <<"a", "b", "a", "b", "a">>,
      <<"b", "a", "c", "a", "b">>,
      <<"c", "c", "c", "c", "c">>,
      <<"c", "b", "a", "a", "a">> }

\* The longest pool a call of the filter is given.
MaxPool == 2

IsWord(w) == w \in Words

(***************************************************************************)
(* SpecFeedback: calls of _generate_feedback on every pair of inputs, and  *)
(* of Wordle.generate_feedback on the same guess by a game whose target    *)
(* word is the same target.                                                *)
(***************************************************************************)
InitFeedback ==
    /\ pc = "input"
    /\ guess \in Words \cup OtherStrings \cup ExampleWords
    /\ target_word \in Words \cup OtherStrings \cup ExampleWords
    /\ possible_words = <<>>
    /\ feedback = <<>>
    /\ new_word_space = <<>>
    /\ result = Returned(<<>>)
    /\ NoSolver

CallGenerateFeedback ==
    /\ pc = "input"
    /\ result' = _generate_feedback(guess, target_word)
    /\ feedback' = result'.value
    /\ game' = Wordle({}, <<>>, target_word)
    /\ reply' = LET fb == generate_feedback(game', guess)
                IN  Reply(game', FALSE, fb.value, "", fb.raised)
    /\ pc' = "returned"
    /\ UNCHANGED <<guess, target_word, possible_words, new_word_space,
                   strategy, vocabulary, previous_guesses, attempts,
                   final_guess, ret, calls, rejected, own_guesses, other,
                   evaluation>>

NextFeedback == CallGenerateFeedback

SpecFeedback == InitFeedback /\ [][NextFeedback]_vars

(***************************************************************************)
(* SpecFilter: calls of _reduce_words_space with the feedback of a guess   *)
(* against a target, on pools of up to MaxPool words.                      *)
(***************************************************************************)
InitFilter ==
    /\ pc = "input"
    /\ guess \in Words \cup {w \in OtherStrings : Len(w) = word_length}
    /\ target_word = None
    /\ possible_words = <<>>
    /\ feedback = <<>>
    /\ new_word_space = <<>>
    /\ result = Returned(<<>>)
    /\ NoSolver

\* The caller builds the pool.
AddWord(w) ==
    /\ pc = "input"
    /\ Len(possible_words) < MaxPool
    /\ possible_words' = Append(possible_words, w)
    /\ UNCHANGED <<pc, guess, target_word, feedback, new_word_space, result>>
    /\ UNCHANGED solveVars

\* The feedback of the guess against a target, which may or may not be in
\* the pool.
FeedbackAgainst(t) ==
    /\ pc = "input"
    /\ target_word' = t
    /\ result' = _generate_feedback(guess, t)
    /\ feedback' = result'.value
    /\ pc' = "feedback"
    /\ UNCHANGED <<guess, possible_words, new_word_space>>
    /\ UNCHANGED solveVars

\* The call itself.  possible_words is copied on entry and the copy alone
\* is filtered, so the caller's list is what it was.
CallReduceWordsSpace ==
    /\ pc = "feedback"
    /\ new_word_space' = _reduce_words_space(guess, possible_words, feedback)
    /\ pc' = "reduced"
    /\ UNCHANGED <<guess, target_word, possible_words, feedback, result>>
    /\ UNCHANGED solveVars

NextFilter ==
    \/ \E w \in PoolWords : AddWord(w)
    \/ \E t \in PoolWords : FeedbackAgainst(t)
    \/ CallReduceWordsSpace

SpecFilter == InitFilter /\ [][NextFilter]_vars

(***************************************************************************)
(* Spec: AbstractStrategy.solve against a Wordle game.                     *)
(*                                                                         *)
(* The strategy's vocabulary is read from a word file, each line           *)
(* lower-cased.  The game's word list is the lines of the same file as     *)
(* they stand, or a larger file, or a file with no line.  A file may hold  *)
(* one line that begins with a capital letter.                             *)
(***************************************************************************)
\* The words of the word files, in file order.
Universe ==
    << <<"t", "a", "r", "e", "s">>,
       <<"c", "a", "r", "e", "s">>,
       <<"s", "e", "r", "a", "i">>,
       <<"t", "a", "s", "s", "e">>,
       <<"s", "e", "a", "r", "s">>,
       <<"t", "a", "s", "t", "e">> >>

\* The most lines a vocabulary file has.
MaxVocab == 4

Strategies == {"entropy", "minimax", "frequency", "hybrid"}

\* The line with its first letter as a capital.
Capitalized(line) ==
    [i \in 1..Len(line) |->
        IF i = 1 THEN CHOOSE c \in {"T", "C", "S"} : LowerChar(c) = line[1]
        ELSE line[i]]

\* The word files: the selections of up to MaxVocab lines of Universe, in
\* order, with at most one line capitalized.
Files ==
    LET Selections == {S \in SUBSET (1..Len(Universe)) : Cardinality(S) <= MaxVocab}
        Lines(S) == SelectSeq([k \in 1..Len(Universe) |-> k], LAMBDA k : k \in S)
        File(S, cap) ==
            [j \in 1..Cardinality(S) |->
                IF Lines(S)[j] = cap THEN Capitalized(Universe[Lines(S)[j]])
                ELSE Universe[Lines(S)[j]]]
    IN  {File(S, cap) : S \in Selections, cap \in 0..Len(Universe)}

\* AbstractStrategy.__init__: the vocabulary is the lines, lower-cased.
VocabularyOf(lines) == [j \in 1..Len(lines) |-> lower(lines[j])]

\* The word lists a game may have been built with, for a strategy built
\* from the given lines.
WordLists(lines) ==
    IF VocabularyOf(lines) = lines
    THEN {Range(lines), Range(Universe), {}}
    ELSE {Range(lines)}

\* The lists of possible solutions a game may have been built with: the
\* lines of the strategy's file, or the lines of a file that holds the
\* target alone.
TargetWordLists(lines, t) == {lines, <<t>>}

\* The strategy and the game after construction and reset_game(target).
Init ==
    /\ pc = "start"
    /\ strategy \in Strategies
    /\ \E lines \in Files :
          /\ vocabulary = VocabularyOf(lines)
          /\ \E word_list \in WordLists(lines), t \in Range(Universe) :
                \E target_word_list \in TargetWordLists(lines, t) :
                    game = Wordle(word_list, target_word_list, t)
    /\ previous_guesses = {}
    /\ possible_words = <<>>
    /\ attempts = 0
    /\ guess = None
    /\ final_guess = None
    /\ feedback = <<>>
    /\ reply = NoReply
    /\ ret = NoReturn
    /\ calls = 0
    /\ rejected = 0
    /\ own_guesses = {}
    /\ other = NoOther
    /\ evaluation = NoEvaluation
    /\ NoPureCall

self == [vocabulary |-> vocabulary, previous_guesses |-> previous_guesses]

\* solve, up to the loop: possible_words = self.vocabulary.copy(),
\* attempts = 0, previous_guesses reset.
SolveStart ==
    /\ pc = "start"
    /\ possible_words' = vocabulary
    /\ attempts' = 0
    /\ previous_guesses' = {}
    /\ own_guesses' = {}
    /\ pc' = "loop"
    /\ UNCHANGED <<guess, feedback, strategy, vocabulary, final_guess, game,
                   reply, ret, calls, rejected>>
    /\ UNCHANGED pureVars
    /\ UNCHANGED <<other, evaluation>>

\* while attempts < max_attempts fails: return None, attempts.
LoopExit ==
    /\ pc = "loop"
    /\ ~(attempts < max_attempts)
    /\ ret' = [word |-> None, attempts |-> attempts]
    /\ pc' = "returned"
    /\ UNCHANGED <<guess, possible_words, feedback, strategy, vocabulary,
                   previous_guesses, attempts, final_guess, game, reply,
                   calls, rejected>>
    /\ UNCHANGED pureVars
    /\ UNCHANGED <<own_guesses, other, evaluation>>

\* A loop body that chooses and submits without counting the attempt.
ChooseGuessUncounted ==
    /\ pc = "loop"
    /\ attempts < max_attempts
    /\ LET chosen == choose_best_guess(strategy, self, possible_words, attempts)
       IN  IF chosen.raised # ""
           THEN /\ pc' = "raised"
                /\ ret' = [word |-> chosen.raised, attempts |-> attempts]
                /\ UNCHANGED <<guess, previous_guesses, own_guesses>>
           ELSE /\ guess' = chosen.value
                /\ previous_guesses' = previous_guesses \cup {chosen.value}
                /\ own_guesses' = own_guesses \cup {chosen.value}
                /\ pc' = "guess"
                /\ UNCHANGED ret
    /\ UNCHANGED <<possible_words, feedback, strategy, vocabulary, attempts,
                   final_guess, game, reply, calls, rejected>>
    /\ UNCHANGED pureVars
    /\ UNCHANGED <<other, evaluation>>

\* The loop body up to the call of make_guess: choose the guess, add it to
\* previous_guesses, count the attempt.
ChooseGuess ==
    /\ pc = "loop"
    /\ attempts < max_attempts
    /\ LET chosen == choose_best_guess(strategy, self, possible_words, attempts)
       IN  IF chosen.raised # ""
           THEN /\ pc' = "raised"
                /\ ret' = [word |-> chosen.raised, attempts |-> attempts]
                /\ UNCHANGED <<guess, previous_guesses, attempts, own_guesses>>
           ELSE /\ guess' = chosen.value
                /\ previous_guesses' = previous_guesses \cup {chosen.value}
                /\ own_guesses' = own_guesses \cup {chosen.value}
                /\ attempts' = attempts + 1
                /\ pc' = "guess"
                /\ UNCHANGED ret
    /\ UNCHANGED <<possible_words, feedback, strategy, vocabulary,
                   final_guess, game, reply, calls, rejected>>
    /\ UNCHANGED pureVars
    /\ UNCHANGED <<other, evaluation>>

\* is_correct, feedback, error_msg = game.make_guess(guess)
MakeGuess ==
    /\ pc = "guess"
    /\ reply' = make_guess(game, guess)
    /\ game' = reply'.game
    /\ calls' = calls + 1
    /\ IF reply'.raised # ""
       THEN /\ pc' = "raised"
            /\ ret' = [word |-> reply'.raised, attempts |-> attempts]
            /\ UNCHANGED <<feedback, rejected>>
       ELSE /\ pc' = "reply"
            /\ feedback' = reply'.feedback
            /\ rejected' = IF reply'.error_msg # "" THEN rejected + 1 ELSE rejected
            /\ UNCHANGED ret
    /\ UNCHANGED <<guess, possible_words, strategy, vocabulary,
                   previous_guesses, attempts, final_guess>>
    /\ UNCHANGED pureVars
    /\ UNCHANGED <<own_guesses, other, evaluation>>

\* if error_msg: continue
ContinueOnError ==
    /\ pc = "reply"
    /\ reply.error_msg # ""
    /\ pc' = "loop"
    /\ UNCHANGED <<guess, possible_words, feedback, strategy, vocabulary,
                   previous_guesses, attempts, final_guess, game, reply, ret,
                   calls, rejected>>
    /\ UNCHANGED pureVars
    /\ UNCHANGED <<own_guesses, other, evaluation>>

\* if is_correct: return guess, attempts
ReturnCorrect ==
    /\ pc = "reply"
    /\ reply.error_msg = ""
    /\ reply.is_correct
    /\ ret' = [word |-> guess, attempts |-> attempts]
    /\ pc' = "returned"
    /\ UNCHANGED <<guess, possible_words, feedback, strategy, vocabulary,
                   previous_guesses, attempts, final_guess, game, reply,
                   calls, rejected>>
    /\ UNCHANGED pureVars
    /\ UNCHANGED <<own_guesses, other, evaluation>>

\* The pool after possible_words = self._reduce_words_space(...).
Reduced == _reduce_words_space(guess, possible_words, feedback)

\* A wrong guess was answered: the rest of the loop body is to be run.
Answered == pc = "reply" /\ reply.error_msg = "" /\ ~reply.is_correct

\* if not possible_words: return None, attempts
ReduceToNothing ==
    /\ Answered
    /\ Reduced = <<>>
    /\ possible_words' = Reduced
    /\ ret' = [word |-> None, attempts |-> attempts]
    /\ pc' = "returned"
    /\ UNCHANGED <<guess, feedback, strategy, vocabulary, previous_guesses,
                   attempts, final_guess, game, reply, calls, rejected>>
    /\ UNCHANGED pureVars
    /\ UNCHANGED <<own_guesses, other, evaluation>>

\* The single-candidate branch is not taken: next iteration.
ReduceAndLoop ==
    /\ Answered
    /\ Reduced # <<>>
    /\ ~(Len(Reduced) = 1 /\ attempts < max_attempts)
    /\ possible_words' = Reduced
    /\ pc' = "loop"
    /\ UNCHANGED <<guess, feedback, strategy, vocabulary, previous_guesses,
                   attempts, final_guess, game, reply, ret, calls, rejected>>
    /\ UNCHANGED pureVars
    /\ UNCHANGED <<own_guesses, other, evaluation>>

\* One candidate left, already guessed and not the guess just made:
\* continue.
ReduceAndSkip ==
    /\ Answered
    /\ Len(Reduced) = 1 /\ attempts < max_attempts
    /\ Reduced[1] \in previous_guesses /\ Reduced[1] # guess
    /\ possible_words' = Reduced
    /\ final_guess' = Reduced[1]
    /\ pc' = "loop"
    /\ UNCHANGED <<guess, feedback, strategy, vocabulary, previous_guesses,
                   attempts, game, reply, ret, calls, rejected>>
    /\ UNCHANGED pureVars
    /\ UNCHANGED <<own_guesses, other, evaluation>>

\* One candidate left: add it to previous_guesses, count the attempt, up to
\* the call of make_guess(final_guess).
ReduceToFinal ==
    /\ Answered
    /\ Len(Reduced) = 1 /\ attempts < max_attempts
    /\ ~(Reduced[1] \in previous_guesses /\ Reduced[1] # guess)
    /\ possible_words' = Reduced
    /\ final_guess' = Reduced[1]
    /\ previous_guesses' = previous_guesses \cup {Reduced[1]}
    /\ own_guesses' = own_guesses \cup {Reduced[1]}
    /\ attempts' = attempts + 1
    /\ pc' = "final"
    /\ UNCHANGED <<guess, feedback, strategy, vocabulary, game, reply, ret,
                   calls, rejected>>
    /\ UNCHANGED pureVars
    /\ UNCHANGED <<other, evaluation>>

\* is_correct, _, error_msg = game.make_guess(final_guess)
MakeFinalGuess ==
    /\ pc = "final"
    /\ reply' = make_guess(game, final_guess)
    /\ game' = reply'.game
    /\ calls' = calls + 1
    /\ rejected' = IF reply'.error_msg # "" THEN rejected + 1 ELSE rejected
    /\ IF reply'.raised # ""
       THEN pc' = "raised" /\ ret' = [word |-> reply'.raised, attempts |-> attempts]
       ELSE pc' = "final_reply" /\ UNCHANGED ret
    /\ UNCHANGED <<guess, possible_words, feedback, strategy, vocabulary,
                   previous_guesses, attempts, final_guess>>
    /\ UNCHANGED pureVars
    /\ UNCHANGED <<own_guesses, other, evaluation>>

\* if is_correct: return final_guess, attempts
ReturnFinal ==
    /\ pc = "final_reply"
    /\ reply.is_correct
    /\ ret' = [word |-> final_guess, attempts |-> attempts]
    /\ pc' = "returned"
    /\ UNCHANGED <<guess, possible_words, feedback, strategy, vocabulary,
                   previous_guesses, attempts, final_guess, game, reply,
                   calls, rejected>>
    /\ UNCHANGED pureVars
    /\ UNCHANGED <<own_guesses, other, evaluation>>

\* else: break, and return None, attempts after the loop.
BreakFinal ==
    /\ pc = "final_reply"
    /\ ~reply.is_correct
    /\ ret' = [word |-> None, attempts |-> attempts]
    /\ pc' = "returned"
    /\ UNCHANGED <<guess, possible_words, feedback, strategy, vocabulary,
                   previous_guesses, attempts, final_guess, game, reply,
                   calls, rejected>>
    /\ UNCHANGED pureVars
    /\ UNCHANGED <<own_guesses, other, evaluation>>

Next ==
    \/ SolveStart
    \/ LoopExit
    \/ ChooseGuess
    \/ MakeGuess
    \/ ContinueOnError
    \/ ReturnCorrect
    \/ ReduceToNothing
    \/ ReduceAndLoop
    \/ ReduceAndSkip
    \/ ReduceToFinal
    \/ MakeFinalGuess
    \/ ReturnFinal
    \/ BreakFinal

Spec == Init /\ [][Next]_vars

\* The positions of solve.
Positions ==
    {"start", "loop", "guess", "reply", "final", "final_reply", "returned", "raised"}

\* solve is at another position than before.  Every step of Next is one.
Advance == pc \notin {"returned", "raised"} /\ pc' \in Positions /\ pc' # pc

\* solve is one sequential call: while it has neither returned nor raised,
\* it does not stay where it is.
FairSpec == Spec /\ WF_pc(Advance)

(***************************************************************************)
(* SpecLong: solve as in Spec, and also on files of six and seven words    *)
(* that differ in their first letter alone, against a game whose word      *)
(* list holds the file and the opening words, and against a game whose     *)
(* target is a line of six letters.  Each wrong guess of a look-alike word *)
(* removes that word alone, so a solve can spend its six attempts.         *)
(***************************************************************************)
LookAlikeWords ==
    << <<"b", "i", "g", "h", "t">>,
       <<"f", "i", "g", "h", "t">>,
       <<"l", "i", "g", "h", "t">>,
       <<"m", "i", "g", "h", "t">>,
       <<"n", "i", "g", "h", "t">>,
       <<"w", "i", "g", "h", "t">>,
       <<"d", "i", "g", "h", "t">> >>

\* The first words returned at attempt index 0 by the four strategies.
OpeningWords ==
    { <<"t", "a", "r", "e", "s">>, <<"s", "e", "r", "a", "i">>,
      <<"c", "a", "r", "e", "s">> }

LongFiles == {SubSeq(LookAlikeWords, 1, n) : n \in {6, 7}}

\* A line of six letters in the file of possible solutions: the lines are
\* stripped and taken as they are.
OverlongLine == <<"c", "a", "r", "e", "s", "s">>

\* The files of one or two lines of Universe, none capitalized.
ShortFiles == {lines \in Files : Len(lines) \in {1, 2} /\ VocabularyOf(lines) = lines}

\* The strategy built from the lines and the given game, before solve.
BeforeSolve(lines, new_game) ==
    /\ pc = "start"
    /\ strategy \in Strategies
    /\ vocabulary = VocabularyOf(lines)
    /\ game = new_game
    /\ previous_guesses = {}
    /\ possible_words = <<>>
    /\ attempts = 0
    /\ guess = None
    /\ final_guess = None
    /\ feedback = <<>>
    /\ reply = NoReply
    /\ ret = NoReturn
    /\ calls = 0
    /\ rejected = 0
    /\ own_guesses = {}
    /\ other = NoOther
    /\ evaluation = NoEvaluation
    /\ NoPureCall

InitLong ==
    \E lines \in LongFiles, t \in Range(LookAlikeWords) :
        /\ t \in Range(lines)
        /\ BeforeSolve(lines, Wordle(Range(lines) \cup OpeningWords, lines, t))

InitOverlong ==
    \E lines \in ShortFiles :
        BeforeSolve(lines, Wordle(Range(Universe), <<OverlongLine>>, OverlongLine))

SpecLong == (Init \/ InitLong \/ InitOverlong) /\ [][Next]_vars

(***************************************************************************)
(* SpecInterleaved: two solve invocations on one strategy instance, each   *)
(* against its own game, interleaved statement by statement.  The fields   *)
(* of the strategy (vocabulary, previous_guesses) are the same object for  *)
(* both; the locals of solve are each invocation's own.  The variables     *)
(* hold the locals of the running invocation, other those of the           *)
(* suspended one.                                                          *)
(***************************************************************************)
\* The locals of the running solve.
Locals ==
    [pc |-> pc, guess |-> guess, possible_words |-> possible_words,
     feedback |-> feedback, attempts |-> attempts,
     final_guess |-> final_guess, game |-> game, reply |-> reply,
     ret |-> ret, calls |-> calls, rejected |-> rejected,
     own_guesses |-> own_guesses]

\* The locals of a solve(g) that has not run its first statement.
NotStarted(g) ==
    [pc |-> "start", guess |-> None, possible_words |-> <<>>,
     feedback |-> <<>>, attempts |-> 0, final_guess |-> None, game |-> g,
     reply |-> NoReply, ret |-> NoReturn, calls |-> 0, rejected |-> 0,
     own_guesses |-> {}]

\* The word files of the shared strategy: the first line of Universe, and
\* its first MaxVocab lines.
SharedFiles == {SubSeq(Universe, 1, n) : n \in {1, MaxVocab}}

\* The targets of the two games.
SharedTargets == Range(SubSeq(Universe, 1, MaxVocab))

\* One strategy, two games built from the same files and reset to a target
\* each; both solves are about to start.
InitInterleaved ==
    /\ strategy \in Strategies
    /\ previous_guesses = {}
    /\ \E lines \in SharedFiles :
          /\ vocabulary = VocabularyOf(lines)
          /\ \E word_list \in WordLists(lines), t1, t2 \in SharedTargets :
                /\ game = Wordle(word_list, lines, t1)
                /\ other = NotStarted(Wordle(word_list, lines, t2))
    /\ pc = "start"
    /\ guess = None
    /\ possible_words = <<>>
    /\ feedback = <<>>
    /\ attempts = 0
    /\ final_guess = None
    /\ reply = NoReply
    /\ ret = NoReturn
    /\ calls = 0
    /\ rejected = 0
    /\ own_guesses = {}
    /\ evaluation = NoEvaluation
    /\ NoPureCall

\* The running solve is suspended between two statements and the other
\* one runs on.
Switch ==
    /\ other # NoOther
    /\ other' = Locals
    /\ pc' = other.pc
    /\ guess' = other.guess
    /\ possible_words' = other.possible_words
    /\ feedback' = other.feedback
    /\ attempts' = other.attempts
    /\ final_guess' = other.final_guess
    /\ game' = other.game
    /\ reply' = other.reply
    /\ ret' = other.ret
    /\ calls' = other.calls
    /\ rejected' = other.rejected
    /\ own_guesses' = other.own_guesses
    /\ UNCHANGED <<strategy, vocabulary, previous_guesses, evaluation>>
    /\ UNCHANGED pureVars

NextInterleaved ==
    \/ Next
    \/ Switch

SpecInterleaved == InitInterleaved /\ [][NextInterleaved]_vars

(***************************************************************************)
(* SpecGame: a caller makes guesses on a Wordle game directly, one         *)
(* make_guess call after another, with valid and invalid guesses.          *)
(***************************************************************************)
\* The lines of the game's word files.
GameFile == SubSeq(Universe, 1, 2)

\* The guesses the caller makes: the words of the file, one of them with a
\* capital letter, a word that is not in the file, strings that are too
\* short or too long, the empty string, and strings of five characters
\* that are not all letters.
GameGuesses ==
    Range(GameFile) \cup
    { Capitalized(Universe[1]),
      Universe[3],
      <<"t", "a", "r">>,
      <<"t", "a", "r", "e", "s", "s">>,
      <<>>,
      <<"t", "a", "1", "e", "s">>,
      <<"c", "a", "r", "e", "-">> }

\* The most make_guess calls the caller makes on one game.
MaxCalls == 7

\* A game built from the file, as it stands or with its first line
\* capitalized, and reset to a target of the file.
InitGame ==
    /\ pc = "playing"
    /\ \E word_list \in {Range(GameFile), {Capitalized(GameFile[1]), GameFile[2]}} :
          \E t \in Range(GameFile) : game = Wordle(word_list, GameFile, t)
    /\ guess = None
    /\ possible_words = <<>>
    /\ feedback = <<>>
    /\ strategy = "none"
    /\ vocabulary = <<>>
    /\ previous_guesses = {}
    /\ attempts = 0
    /\ final_guess = None
    /\ reply = NoReply
    /\ ret = NoReturn
    /\ calls = 0
    /\ rejected = 0
    /\ own_guesses = {}
    /\ other = NoOther
    /\ evaluation = NoEvaluation
    /\ NoPureCall

\* is_correct, feedback, error_msg = game.make_guess(g)
CallMakeGuess(g) ==
    /\ pc = "playing"
    /\ calls < MaxCalls
    /\ guess' = g
    /\ reply' = make_guess(game, g)
    /\ game' = reply'.game
    /\ feedback' = reply'.feedback
    /\ calls' = calls + 1
    /\ rejected' = IF reply'.error_msg # "" THEN rejected + 1 ELSE rejected
    /\ UNCHANGED <<pc, possible_words, strategy, vocabulary, previous_guesses,
                   attempts, final_guess, ret, own_guesses, other, evaluation>>
    /\ UNCHANGED pureVars

NextGame == \E g \in GameGuesses : CallMakeGuess(g)

SpecGame == InitGame /\ [][NextGame]_vars

(***************************************************************************)
(* SpecAgree: one make_guess call on a game whose word list holds the      *)
(* guess in lower case, or the two words of ExampleWords, and the          *)
(* strategies' _generate_feedback on the guess the game was given and the  *)
(* target word the game stores.                                            *)
(* The target word is a constructor argument or a line of the target file  *)
(* and is stored as it is (src/wordle.py lines 18-24).                     *)
(***************************************************************************)
InitAgree ==
    /\ pc = "input"
    /\ guess \in Words \cup OtherStrings \cup ExampleWords
    /\ target_word \in Words \cup OtherStrings \cup ExampleWords
    /\ \E word_list \in {{lower(guess)}, ExampleWords} :
          game = Wordle(word_list, <<target_word>>, target_word)
    /\ possible_words = <<>>
    /\ feedback = <<>>
    /\ new_word_space = <<>>
    /\ result = Returned(<<>>)
    /\ strategy = "none"
    /\ vocabulary = <<>>
    /\ previous_guesses = {}
    /\ attempts = 0
    /\ final_guess = None
    /\ reply = NoReply
    /\ ret = NoReturn
    /\ calls = 0
    /\ rejected = 0
    /\ own_guesses = {}
    /\ other = NoOther
    /\ evaluation = NoEvaluation

\* is_correct, feedback, error_msg = game.make_guess(guess), and
\* self._generate_feedback(guess, game.target_word)
CallMakeGuessAndFeedback ==
    /\ pc = "input"
    /\ reply' = make_guess(game, guess)
    /\ game' = reply'.game
    /\ feedback' = reply'.feedback
    /\ result' = _generate_feedback(guess, game.target_word)
    /\ calls' = 1
    /\ rejected' = IF reply'.error_msg # "" THEN 1 ELSE 0
    /\ pc' = "returned"
    /\ UNCHANGED <<guess, target_word, possible_words, new_word_space,
                   strategy, vocabulary, previous_guesses, attempts,
                   final_guess, ret, own_guesses, other, evaluation>>

NextAgree == CallMakeGuessAndFeedback

SpecAgree == InitAgree /\ [][NextAgree]_vars

(***************************************************************************)
(* SpecChoose: one call of choose_best_guess on a strategy built from a    *)
(* word file, with a pool that is a sub-list of the vocabulary (what solve *)
(* passes, abstract_strategy.py lines 106, 133), any set of vocabulary     *)
(* words as previous_guesses and any attempt index below max_attempts.     *)
(* The word files are those of solve and, for FrequencyBasedStrategy,      *)
(* whose score is modelled as the double it is, one more of words with     *)
(* repeated letters.                                                       *)
(***************************************************************************)
\* The sub-lists of a list: the selections of its positions, in order.
SubLists(list) ==
    LET Picked(S) == SelectSeq([k \in 1..Len(list) |-> k], LAMBDA k : k \in S)
    IN  {[j \in 1..Cardinality(S) |-> list[Picked(S)[j]]] : S \in SUBSET (1..Len(list))}

\* A word file of four words with repeated letters.
RepeatedLetterFile ==
    << <<"r", "e", "a", "r", "s">>,
       <<"s", "e", "a", "r", "s">>,
       <<"s", "e", "a", "l", "s">>,
       <<"l", "o", "o", "p", "s">> >>

\* The word files a strategy of the given class is built from.
ChooseFiles(s) == IF s = "frequency" THEN Files \cup {RepeatedLetterFile} ELSE Files

InitChoose ==
    /\ pc = "input"
    /\ strategy \in Strategies
    /\ vocabulary \in {VocabularyOf(lines) : lines \in ChooseFiles(strategy)}
    /\ possible_words \in SubLists(vocabulary)
    /\ previous_guesses \in SUBSET Range(vocabulary)
    /\ attempts \in 0..MaxAttempt
    /\ guess = None
    /\ final_guess = None
    /\ feedback = <<>>
    /\ game = Wordle({}, <<>>, None)
    /\ reply = NoReply
    /\ ret = NoReturn
    /\ calls = 0
    /\ rejected = 0
    /\ own_guesses = {}
    /\ other = NoOther
    /\ evaluation = NoEvaluation
    /\ NoPureCall

\* guess = self.choose_best_guess(possible_words, attempts)
CallChooseBestGuess ==
    /\ pc = "input"
    /\ result' = choose_best_guess(strategy, self, possible_words, attempts)
    /\ guess' = IF result'.raised = "" THEN result'.value ELSE guess
    /\ pc' = "returned"
    /\ UNCHANGED <<target_word, new_word_space, possible_words, feedback,
                   strategy, vocabulary, previous_guesses, attempts,
                   final_guess, game, reply, ret, calls, rejected,
                   own_guesses, other, evaluation>>

NextChoose == CallChooseBestGuess

SpecChoose == InitChoose /\ [][NextChoose]_vars

(***************************************************************************)
(* SpecClosed: EntropyBasedStrategy.solve with a vocabulary file of four   *)
(* lines.  The game is built from the same file (a closed vocabulary), or  *)
(* from the file without its first line, or from an empty file; the target *)
(* is any word of ClosedWords.                                             *)
(***************************************************************************)
\* The words of the four-line files, in file order.  The last four share
\* no letter with one another.
ClosedWords ==
    << <<"t", "a", "r", "e", "s">>,
       <<"c", "a", "r", "e", "s">>,
       <<"s", "e", "r", "a", "i">>,
       <<"s", "e", "a", "r", "s">>,
       <<"f", "j", "o", "r", "d">>,
       <<"g", "u", "c", "k", "s">>,
       <<"n", "y", "m", "p", "h">>,
       <<"v", "i", "b", "e", "x">> >>

\* The files of four lines of ClosedWords, in order.
ClosedFiles ==
    LET Selections == {S \in SUBSET (1..Len(ClosedWords)) : Cardinality(S) = 4}
        Lines(S) == SelectSeq([k \in 1..Len(ClosedWords) |-> k], LAMBDA k : k \in S)
    IN  {[j \in 1..4 |-> ClosedWords[Lines(S)[j]]] : S \in Selections}

InitClosed ==
    /\ pc = "start"
    /\ strategy = "entropy"
    /\ \E lines \in ClosedFiles :
          /\ vocabulary = VocabularyOf(lines)
          /\ \E word_list \in {Range(lines), Range(Tail(lines)), {}} :
                \E t \in Range(ClosedWords) : game = Wordle(word_list, lines, t)
    /\ previous_guesses = {}
    /\ possible_words = <<>>
    /\ attempts = 0
    /\ guess = None
    /\ final_guess = None
    /\ feedback = <<>>
    /\ reply = NoReply
    /\ ret = NoReturn
    /\ calls = 0
    /\ rejected = 0
    /\ own_guesses = {}
    /\ other = NoOther
    /\ evaluation = NoEvaluation
    /\ NoPureCall

SpecClosed == InitClosed /\ [][Next]_vars

(***************************************************************************)
(* SpecEvaluate: evaluate_strategy(game, strategy, target_words).  For     *)
(* each target word the game is reset, solve is run on it (its return      *)
(* value is dropped) and the word's result is recorded from game.attempts. *)
(* evaluation.returned is history: what each solve returned.               *)
(***************************************************************************)
\* Wordle.reset_game(target_word)
reset_game(g, word) ==
    [g EXCEPT !.target_word = word, !.attempts = 0, !.guesses = <<>>,
              !.feedbacks = <<>>]

\* The vocabulary files of the evaluated strategy: the word files of
\* MaxVocab lines, and the file with no line.
EvaluatedFiles == {lines \in Files : Len(lines) \in {0, MaxVocab}}

\* The lists of target words: two successive words of Universe.
EvaluatedTargets == {SubSeq(Universe, k, k + 1) : k \in 1..(Len(Universe) - 1)}

\* evaluate_strategy is entered: results is empty, the loop is at its first
\* word.
InitEvaluate ==
    /\ pc = "evaluate"
    /\ strategy \in Strategies
    /\ \E lines \in EvaluatedFiles, target_words \in EvaluatedTargets :
          /\ vocabulary = VocabularyOf(lines)
          /\ \E word_list \in WordLists(lines) :
                game = Wordle(word_list, target_words, target_words[1])
          /\ evaluation = [target_words |-> target_words, index |-> 1,
                           failures |-> 0, word_results |-> <<>>,
                           returned |-> <<>>]
    /\ previous_guesses = {}
    /\ possible_words = <<>>
    /\ attempts = 0
    /\ guess = None
    /\ final_guess = None
    /\ feedback = <<>>
    /\ reply = NoReply
    /\ ret = NoReturn
    /\ calls = 0
    /\ rejected = 0
    /\ own_guesses = {}
    /\ other = NoOther
    /\ NoPureCall

\* for word in target_words: game.reset_game(word), and solve is entered.
EvaluateReset ==
    /\ pc = "evaluate"
    /\ evaluation.index <= Len(evaluation.target_words)
    /\ game' = reset_game(game, evaluation.target_words[evaluation.index])
    /\ pc' = "start"
    /\ guess' = None
    /\ final_guess' = None
    /\ feedback' = <<>>
    /\ reply' = NoReply
    /\ ret' = NoReturn
    /\ calls' = 0
    /\ rejected' = 0
    /\ UNCHANGED <<possible_words, strategy, vocabulary, previous_guesses,
                   attempts, own_guesses, other, evaluation>>
    /\ UNCHANGED pureVars

\* solve has returned: the word's result is recorded from game.attempts,
\* and failures is raised when game.attempts > 6.
EvaluateRecord ==
    /\ pc = "returned"
    /\ evaluation # NoEvaluation
    /\ evaluation' =
          [evaluation EXCEPT
              !.word_results = Append(@, [word |-> evaluation.target_words[evaluation.index],
                                          attempts |-> game.attempts,
                                          success |-> game.attempts <= 6]),
              !.failures = IF game.attempts > 6 THEN @ + 1 ELSE @,
              !.returned = Append(@, ret),
              !.index = @ + 1]
    /\ pc' = "evaluate"
    /\ UNCHANGED <<guess, possible_words, feedback, strategy, vocabulary,
                   previous_guesses, attempts, final_guess, game, reply, ret,
                   calls, rejected, own_guesses, other>>
    /\ UNCHANGED pureVars

\* The loop over target_words is over.
EvaluateReturn ==
    /\ pc = "evaluate"
    /\ evaluation.index > Len(evaluation.target_words)
    /\ pc' = "evaluated"
    /\ UNCHANGED <<guess, possible_words, feedback, strategy, vocabulary,
                   previous_guesses, attempts, final_guess, game, reply, ret,
                   calls, rejected, own_guesses, other, evaluation>>
    /\ UNCHANGED pureVars

NextEvaluate ==
    \/ Next
    \/ EvaluateReset
    \/ EvaluateRecord
    \/ EvaluateReturn

SpecEvaluate == InitEvaluate /\ [][NextEvaluate]_vars

(***************************************************************************)
(* Properties of the filter (SpecFilter).                                  *)
(***************************************************************************)
\* s is t with some elements left out: the order of t is kept.
RECURSIVE IsSubList(_, _)
IsSubList(s, t) ==
    IF s = <<>> THEN TRUE
    ELSE IF t = <<>> THEN FALSE
    ELSE IF Head(s) = Head(t) THEN IsSubList(Tail(s), Tail(t))
    ELSE IsSubList(s, Tail(t))

\* The positions of the feedback that hold a gray mark on a letter the same
\* feedback also marks green or yellow.
GrayOnMarkedLetter ==
    \E i, j \in 1..Len(feedback) :
        /\ feedback[i] = "_"
        /\ feedback[j] \in {"G", "Y"}
        /\ lower(guess)[i] = lower(guess)[j]

\* C1: filter soundness.  Filtering a pool with the pattern a target of the
\* pool really produces for the guess never removes that target.
C1_FilterSound ==
    (pc = "reduced" /\ target_word \in Range(possible_words))
        => target_word \in Range(new_word_space)

\* C1 witness: a two-word pool holding the target was filtered with a
\* pattern that has a gray mark on a letter also marked green or yellow;
\* the other word went and the target stayed.
C1_Witness ==
    /\ pc = "reduced"
    /\ Len(possible_words) = 2
    /\ target_word \in Range(possible_words)
    /\ GrayOnMarkedLetter
    /\ new_word_space = <<target_word>>

\* C2 (as claimed): filter exactness.  A word is in the filtered pool if and
\* only if it is in the pool and produces the pattern for the guess.
C2_FilterExact ==
    (pc = "reduced" /\ IsWord(guess)) =>
        \A w \in PoolWords :
            w \in Range(new_word_space)
                <=> /\ w \in Range(possible_words)
                    /\ _generate_feedback(guess, w).value = feedback

\* C8: the filtered pool is a sub-list of the pool, in the pool's order, so
\* no longer than the pool; the caller's pool is what it was before the call.
C8_SubList ==
    pc = "reduced" =>
        /\ IsSubList(new_word_space, possible_words)
        /\ Len(new_word_space) <= Len(possible_words)
        /\ Range(new_word_space) \subseteq Range(possible_words)

\* C8 witness: a pool of two different words went through the filter and
\* both stayed, in order.
C8_Witness ==
    /\ pc = "reduced"
    /\ Len(possible_words) = 2
    /\ possible_words[1] # possible_words[2]
    /\ new_word_space = possible_words

(***************************************************************************)
(* Properties of the feedback generator (SpecFeedback).                    *)
(***************************************************************************)
\* The positions marked green or yellow that hold the letter.
Marked(g, fb, letter) ==
    {i \in 1..Len(fb) : fb[i] \in {"G", "Y"} /\ g[i] = letter}

Min(a, b) == IF a < b THEN a ELSE b

\* The pattern fb marks the guess g against the target t within bounds: the
\* marks G and Y on a letter are at most as many as the letter's
\* occurrences in g and in t, and a G stands only where g and t agree.
MarksBounded(g, t, fb) ==
    /\ Len(fb) = word_length
    /\ \A letter \in Letters :
          Cardinality(Marked(g, fb, letter))
              <= Min(count(g, letter), count(t, letter))
    /\ \A i \in 1..word_length : fb[i] = "G" => g[i] = t[i]

\* C9: for a guess and a target of five letters each, _generate_feedback
\* returns a pattern that marks the guess within bounds, and so does the
\* game's generate_feedback.
C9_MarksBounded ==
    (pc = "returned" /\ IsWord(guess) /\ IsWord(target_word)) =>
        /\ result.raised = ""
        /\ MarksBounded(guess, target_word, feedback)
        /\ reply.raised = ""
        /\ MarksBounded(guess, target_word, reply.feedback)

\* C9 witness: the guess holds a letter more often than the target does,
\* and the feedback marks it exactly as often as the target holds it, once
\* yellow, the later occurrence gray.
C9_Witness ==
    /\ pc = "returned" /\ IsWord(guess) /\ IsWord(target_word)
    /\ \E letter \in Letters :
          /\ count(guess, letter) > count(target_word, letter)
          /\ count(target_word, letter) > 0
          /\ Cardinality(Marked(guess, feedback, letter)) = count(target_word, letter)
          /\ \E i, j \in 1..word_length :
                /\ i < j /\ guess[i] = letter /\ guess[j] = letter
                /\ feedback[i] = "Y" /\ feedback[j] = "_"

\* C10 (as claimed): whenever the lengths of guess and target differ, or
\* either is not 5, the call fails; it returns no pattern.
C10_LengthChecked ==
    (/\ pc = "returned"
     /\ \/ Len(guess) # Len(target_word)
        \/ Len(guess) # word_length
        \/ Len(target_word) # word_length)
        => result.raised # ""

(***************************************************************************)
(* Properties of solve (Spec, FairSpec).                                   *)
(***************************************************************************)
\* solve has returned or has raised.
Done == pc \in {"returned", "raised"}

\* A bound on the steps solve has yet to take: four for each attempt not
\* yet counted, and the steps left in the current turn of the loop.
Rank ==
    IF Done THEN 0
    ELSE 4 * (max_attempts - attempts)
           + CASE pc = "loop" -> 1
               [] pc \in {"start", "reply", "final_reply"} -> 2
               [] pc \in {"guess", "final"} -> 3

\* C3: solve terminates, and no solve calls game.make_guess more than
\* max_attempts times, whatever the game answers.  Every step of solve
\* lowers Rank, which is never negative, so no solve takes more steps than
\* Rank counts at its start; solve is one sequential call, so it takes its
\* steps until it has returned or raised.
C3_TerminatesWithinBudget ==
    /\ [](calls <= max_attempts /\ Rank >= 0)
    /\ [][Rank' < Rank]_vars
    /\ <>Done

\* C3 witness: a solve returned after max_attempts calls of make_guess, all
\* of them rejected by the game.
C3_Witness ==
    /\ pc = "returned"
    /\ calls = max_attempts
    /\ rejected = max_attempts

\* C4 (as claimed): a rejected guess does not consume the attempt budget.
\* At the head of the loop the attempt counter is the number of guesses the
\* game accepted: the calls of make_guess less the rejected ones.
C4_RejectionKeepsBudget ==
    pc = "loop" => attempts = calls - rejected

\* C5 (as claimed): when solve returns a word, the word is the game's target
\* and the returned attempt count is the number of guesses the game
\* accepted, between 1 and max_attempts.
C5_SolvedCount ==
    (pc = "returned" /\ ret.word # None) =>
        /\ ret.word = game.target_word
        /\ ret.attempts = game.attempts
        /\ ret.attempts \in 1..max_attempts

\* C6 (as claimed): for a non-empty pool and any attempt index, the word
\* choose_best_guess returns is a word of the vocabulary and not one of
\* previous_guesses (so it is not None).
C6_ChoiceInVocabulary ==
    (pc = "loop" /\ attempts < max_attempts /\ possible_words # <<>>) =>
        LET chosen == choose_best_guess(strategy, self, possible_words, attempts)
        IN  chosen.raised = "" =>
                /\ chosen.value \in Range(vocabulary)
                /\ chosen.value \notin previous_guesses

\* C7 (as claimed): whenever the pool has exactly one element, the guess
\* chosen is that element, for every attempt index, 0 included.
C7_SingleAtAnyAttempt ==
    (pc = "guess" /\ Len(possible_words) = 1) => guess = possible_words[1]

\* C7 (amended): whenever the pool has exactly one element and the attempt
\* index is at least 1, the guess chosen is that element, whatever
\* previous_guesses holds.  (At pc = "guess" the attempt has been counted:
\* the index the guess was chosen at is attempts - 1.)
C7_SingleAfterOpening ==
    (pc = "guess" /\ Len(possible_words) = 1 /\ attempts - 1 >= 1)
        => guess = possible_words[1]

\* C7 witness: a guess the game accepted left one candidate of several in
\* the pool, and at a later turn of the loop the solver chose it.
C7_Witness ==
    /\ pc = "guess"
    /\ Len(possible_words) = 1
    /\ attempts - 1 >= 1
    /\ Len(vocabulary) > 1
    /\ game.attempts >= 1
    /\ guess = possible_words[1]

(***************************************************************************)
(* The ways solve ends without the target.                                 *)
(***************************************************************************)
\* solve returned because the filter left no candidate (the return inside
\* "if not possible_words").
Stuck ==
    /\ pc = "returned"
    /\ ret.word = None
    /\ possible_words = <<>>
    /\ reply.error_msg = ""
    /\ calls > rejected

\* What the return after the loop hands back when the attempts are used up
\* or the final guess was wrong: None and the attempts.
ExhaustedOutcomes == {[word |-> None, attempts |-> n] : n \in 0..max_attempts}

\* C11: when the filter leaves an empty pool after a wrong guess, solve has
\* ended (it makes no further guess) and what it reports is a failure of
\* its own: an exception, or a value that the return for used-up attempts
\* never hands back.
C11_StuckIsHardFailure == Stuck => ret \notin ExhaustedOutcomes

\* C12: when solve has set up its candidate pool and has chosen nothing
\* yet, the pool is the game's list of possible solutions.
C12_PoolIsTargetList ==
    (pc = "loop" /\ attempts = 0) => possible_words = game.target_word_list

\* C13: whenever an invocation of solve is about to call choose_best_guess,
\* the exclusion set the call reads (self.previous_guesses) is exactly the
\* set of words this invocation has guessed: no word of the other
\* invocation, and none of its own missing.
C13_ExclusionSetIsOwn ==
    (pc = "loop" /\ attempts < max_attempts) => previous_guesses = own_guesses

(***************************************************************************)
(* Claims about Wordle.make_guess.                                         *)
(***************************************************************************)
\* The guess, lower-cased, fails one of the three validations.
FailsValidation(g, word) ==
    \/ Len(lower(word)) # g.word_length
    \/ \E i \in 1..Len(word) : lower(word)[i] \in {"1", "-"}
    \/ word = <<>>
    \/ lower(word) \notin g.word_list

\* C14: a make_guess call whose guess has the wrong length, holds a
\* character that is not a letter, or is not in the word list returns
\* (False, [], a non-empty error string) and leaves attempts, guesses,
\* feedbacks and target_word of the game as they were.
C14_InvalidGuessFrame ==
    [][FailsValidation(game, guess') =>
          /\ reply'.raised = ""
          /\ ~reply'.is_correct
          /\ reply'.feedback = <<>>
          /\ reply'.error_msg # ""
          /\ game'.attempts = game.attempts
          /\ game'.guesses = game.guesses
          /\ game'.feedbacks = game.feedbacks
          /\ game'.target_word = game.target_word]_vars

\* A guess with a character that is no letter was rejected by a game that
\* had recorded guesses before.
C14_Witness ==
    /\ pc = "playing"
    /\ game.attempts >= 2
    /\ Len(guess) = game.word_length
    /\ ~isalpha(guess)
    /\ reply.error_msg = "Word contains non-alphabetic characters"
    /\ Len(game.guesses) = game.attempts

\* C15: make_guess refuses a guess once the attempts are used up, so a
\* game never counts more attempts than max_attempts, whatever calls are
\* made on it.
C15_AttemptsBounded == game.attempts <= game.max_attempts

(***************************************************************************)
(* Claims about the opening guess.                                         *)
(***************************************************************************)
\* The opening word of each strategy.
Opening(s) ==
    CASE s = "entropy" -> <<"t", "a", "r", "e", "s">>
      [] s = "hybrid" -> <<"t", "a", "r", "e", "s">>
      [] s = "minimax" -> <<"s", "e", "r", "a", "i">>
      [] s = "frequency" -> <<"c", "a", "r", "e", "s">>

\* C16: at attempt index 0 choose_best_guess returns the strategy's opening
\* word, whatever the pool (the empty pool, the current pool, the whole
\* vocabulary) and whatever previous_guesses holds, and the first word
\* solve is about to submit is that opening word.
C16_OpeningWord ==
    /\ \A pool \in {<<>>, possible_words, vocabulary} :
          choose_best_guess(strategy, self, pool, 0) = Returned(Opening(strategy))
    /\ (pc = "guess" /\ calls = 0) => guess = Opening(strategy)

\* Minimax is about to submit its first word; the pool holds one word, and
\* it is not the word submitted.
C16_Witness ==
    /\ strategy = "minimax"
    /\ pc = "guess"
    /\ calls = 0
    /\ Len(possible_words) = 1
    /\ guess # possible_words[1]
    /\ guess = <<"s", "e", "r", "a", "i">>

(***************************************************************************)
(* Claims about solve on a closed vocabulary.                              *)
(***************************************************************************)
\* One row of the edit-distance table of a and b: row i from row i - 1,
\* columns j..Len(b), given the columns before j in acc.
RECURSIVE EditRow(_, _, _, _, _, _)
EditRow(a, b, i, j, prev, acc) ==
    IF j > Len(b) THEN acc
    ELSE LET substitute == prev[j] + (IF a[i] = b[j] THEN 0 ELSE 1)
             delete == prev[j + 1] + 1
             insert == acc[j] + 1
         IN  EditRow(a, b, i, j + 1, prev,
                     Append(acc, Min(substitute, Min(delete, insert))))

\* The rows i..Len(a) of the table; the distance is the last entry.
RECURSIVE EditRows(_, _, _, _)
EditRows(a, b, i, prev) ==
    IF i > Len(a) THEN prev[Len(b) + 1]
    ELSE EditRows(a, b, i + 1, EditRow(a, b, i, 1, prev, <<i>>))

\* The edit distance of two words: the fewest insertions, deletions and
\* substitutions of one letter that turn a into b.
EditDistance(a, b) == EditRows(a, b, 1, [j \in 1..(Len(b) + 1) |-> j - 1])

\* The Entropy strategy and the game share a vocabulary of four words that
\* are pairwise two or more edits apart, and the target is one of them.
ClosedVocabulary ==
    /\ strategy = "entropy"
    /\ Len(vocabulary) = 4
    /\ game.word_list = Range(vocabulary)
    /\ game.target_word \in Range(vocabulary)
    /\ \A i, j \in 1..Len(vocabulary) :
          i < j => EditDistance(vocabulary[i], vocabulary[j]) >= 2

\* C17 as stated: on a closed vocabulary of four words solve makes at most
\* three guesses, and when it has ended it has returned the target.
C17_SolvedInThree ==
    ClosedVocabulary =>
        /\ calls <= 3
        /\ Done => (pc = "returned" /\ ret.word = game.target_word /\ ret.attempts <= 3)

\* C17, amended: on a closed vocabulary of four words solve makes at most
\* five make_guess calls, of which the game accepts at most four and
\* rejects at most one (the opening word, when the vocabulary does not
\* hold it), and when it has ended it has returned the target.
C17_SolvedInFive ==
    ClosedVocabulary =>
        /\ calls <= 5
        /\ game.attempts <= 4
        /\ rejected <= 1
        /\ rejected = 1 => <<"t", "a", "r", "e", "s">> \notin Range(vocabulary)
        /\ Done => (pc = "returned" /\ ret.word = game.target_word /\ ret.attempts <= 5)

\* solve returned the target of a closed vocabulary at its fifth attempt.
C17_Witness ==
    /\ ClosedVocabulary
    /\ pc = "returned"
    /\ ret.word = game.target_word
    /\ ret.attempts = 5
    /\ game.attempts = 4

(***************************************************************************)
(* Claims about evaluate_strategy.                                         *)
(***************************************************************************)
\* solve returned the i-th target word, within six attempts.
SolvedByEvaluatedRun(i) ==
    /\ evaluation.returned[i].word = evaluation.word_results[i].word
    /\ evaluation.returned[i].attempts <= 6

\* C18: every recorded word is marked a success exactly when its solve
\* returned that word within six attempts, and failures counts the recorded
\* words whose solve did not.
C18_SuccessIffSolved ==
    evaluation # NoEvaluation =>
        /\ \A i \in 1..Len(evaluation.word_results) :
              evaluation.word_results[i].success <=> SolvedByEvaluatedRun(i)
        /\ evaluation.failures =
              Cardinality({i \in 1..Len(evaluation.word_results) : ~SolvedByEvaluatedRun(i)})

(***************************************************************************)
(* Claims about the single-candidate shortcut of solve.                    *)
(***************************************************************************)
\* The filter has just left exactly one candidate and attempts remain.
SingleCandidateLeft == Answered /\ Len(Reduced) = 1 /\ attempts < max_attempts

\* The single candidate was not guessed before: it is the next word
\* submitted.
C19_FreshCandidateSubmitted ==
    [][(SingleCandidateLeft /\ Reduced[1] \notin previous_guesses) =>
          (pc' = "final" /\ final_guess' = Reduced[1])]_vars

\* The single candidate was guessed before: it is not made the final
\* guess.
C19_GuessedCandidateNotFinal ==
    [][(SingleCandidateLeft /\ Reduced[1] \in previous_guesses) => pc' # "final"]_vars

\* The shortcut has skipped the single candidate because it was guessed
\* before (final_guess holds it), and choose_best_guess is called on the
\* one-word pool: the word it returns for submission is another one.
C19_GuessedCandidateNotChosen ==
    [][(/\ pc = "loop" /\ pc' = "guess"
        /\ Len(possible_words) = 1
        /\ final_guess = possible_words[1]
        /\ possible_words[1] \in previous_guesses) => guess' # possible_words[1]]_vars

\* C19: when the filter leaves exactly one candidate and attempts remain,
\* that candidate is the next word submitted if it was not guessed before;
\* if it was, it is never submitted again: neither as the final guess nor
\* as the choice of a later choose_best_guess.
C19_SingleCandidateShortcut ==
    /\ C19_FreshCandidateSubmitted
    /\ C19_GuessedCandidateNotFinal
    /\ C19_GuessedCandidateNotChosen

(***************************************************************************)
(* Claims about the exact pattern of _generate_feedback.                   *)
(***************************************************************************)
\* The positions of g that hold the letter and are not green against t,
\* and the positions of t that hold it and are not green.
FreeInGuess(g, t, letter) == {i \in 1..Len(g) : g[i] = letter /\ g[i] # t[i]}
FreeInTarget(g, t, letter) == {i \in 1..Len(t) : t[i] = letter /\ g[i] # t[i]}

\* fb is the pattern the duplicate-letter rule prescribes for g against t.
ExactPattern(g, t, fb) ==
    /\ Len(fb) = Len(g)
    /\ \A i \in 1..Len(g) : fb[i] \in {"G", "Y", "_"}
    /\ \A i \in 1..Len(g) : fb[i] = "G" <=> g[i] = t[i]
    /\ \A letter \in Range(g) :
          LET yellows == {i \in 1..Len(g) : g[i] = letter /\ fb[i] = "Y"}
              free == FreeInGuess(g, t, letter)
              n == Min(Cardinality(free), Cardinality(FreeInTarget(g, t, letter)))
          IN  /\ Cardinality(yellows) = n
              /\ yellows = {i \in free : Cardinality({j \in free : j < i}) < n}

\* C20: for five-letter lower-case words the pattern returned is exactly
\* the one of the duplicate-letter rule: G where the letters agree, for
\* each letter as many Y as the smaller of its non-green occurrences in
\* guess and in target, on the leftmost of them in guess, and _ elsewhere;
\* abcde against edcba gives YYGYY and aabbc against ccbba gives Y_GGY.
C20_ExactPattern ==
    (pc = "returned" /\ guess \in Words \cup ExampleWords /\ target_word \in Words \cup ExampleWords) =>
        /\ result.raised = ""
        /\ ExactPattern(guess, target_word, result.value)
        /\ (guess = <<"a", "b", "c", "d", "e">> /\ target_word = <<"e", "d", "c", "b", "a">>)
              => result.value = <<"Y", "Y", "G", "Y", "Y">>
        /\ (guess = <<"a", "a", "b", "b", "c">> /\ target_word = <<"c", "c", "b", "b", "a">>)
              => result.value = <<"Y", "_", "G", "G", "Y">>

\* aabbc against ccbba: a is free twice in the guess and once in the
\* target, and the one Y is on the first a.
C20_Witness ==
    /\ pc = "returned"
    /\ guess = <<"a", "a", "b", "b", "c">>
    /\ target_word = <<"c", "c", "b", "b", "a">>
    /\ result.value = <<"Y", "_", "G", "G", "Y">>
    /\ Cardinality(FreeInGuess(guess, target_word, "a")) = 2
    /\ Cardinality(FreeInTarget(guess, target_word, "a")) = 1

(***************************************************************************)
(* C21: the game and the strategies compute the same feedback.  For every  *)
(* guess the game accepted, the pattern make_guess returned (from          *)
(* Wordle.generate_feedback) equals, symbol for symbol, what               *)
(* _generate_feedback gives for the guess and the game's target word, and  *)
(* make_guess reported is_correct exactly when that pattern is all G.      *)
(***************************************************************************)
\* The game took the guess: no error message.
Accepted == pc = "returned" /\ reply.error_msg = ""

AllGreen == [i \in 1..word_length |-> "G"]

C21_SamePattern ==
    Accepted =>
        /\ reply.raised = result.raised
        /\ reply.feedback = result.value
        /\ reply.is_correct <=> (result.raised = "" /\ result.value = AllGreen)

(***************************************************************************)
(* C22: for an attempt index of at least 1 and a pool of at least two      *)
(* candidates, MinimaxBasedStrategy.choose_best_guess returns the          *)
(* vocabulary word not in previous_guesses whose largest feedback-pattern  *)
(* group over the candidates is smallest, among all the words of the       *)
(* vocabulary and not only the candidates; on ties it returns the first    *)
(* such word in vocabulary order.                                          *)
(***************************************************************************)
\* The positions of the vocabulary whose word is not in previous_guesses.
Unguessed == {k \in DOMAIN vocabulary : vocabulary[k] \notin previous_guesses}

\* The size of the largest group of candidates that give the word one and
\* the same feedback pattern.
LargestGroup(word, pool) ==
    LET pattern(t) == _generate_feedback(word, pool[t]).value
        size(t) == Cardinality({k \in DOMAIN pool : pattern(k) = pattern(t)})
    IN  CHOOSE n \in 1..Len(pool) :
            /\ \E t \in DOMAIN pool : size(t) = n
            /\ \A t \in DOMAIN pool : size(t) <= n

\* A choose_best_guess call at an attempt index from 1 on a pool of two or
\* more candidates has returned, and some vocabulary word was not guessed.
ScoredCall(s) ==
    /\ pc = "returned"
    /\ strategy = s
    /\ attempts >= 1
    /\ Len(possible_words) >= 2
    /\ Unguessed # {}

C22_MinimaxChoice ==
    ScoredCall("minimax") =>
        \E k \in Unguessed :
            /\ result = Returned(vocabulary[k])
            /\ \A j \in Unguessed :
                  LET mine == LargestGroup(vocabulary[k], possible_words)
                      other_one == LargestGroup(vocabulary[j], possible_words)
                  IN  /\ mine <= other_one
                      /\ j < k => mine < other_one

\* C22 witness: the word returned is not one of the candidates, a
\* candidate later in the vocabulary has the same largest group, and an
\* earlier unguessed word has a larger one.
C22_Witness ==
    /\ ScoredCall("minimax")
    /\ result.raised = ""
    /\ result.value \notin Range(possible_words)
    /\ \E j, i \in Unguessed :
          /\ vocabulary[j] \in Range(possible_words)
          /\ LargestGroup(vocabulary[j], possible_words)
                = LargestGroup(result.value, possible_words)
          /\ LargestGroup(vocabulary[i], possible_words)
                > LargestGroup(result.value, possible_words)
          /\ \E k \in Unguessed : vocabulary[k] = result.value /\ i < k /\ k < j

(***************************************************************************)
(* C23 (as claimed): for an attempt index of at least 1 and a pool of at   *)
(* least two candidates, FrequencyBasedStrategy.choose_best_guess returns  *)
(* the first vocabulary word not in previous_guesses with the maximum      *)
(* score.  The score is accumulated left to right: at each position add    *)
(* the number of candidates with that letter at that position, then        *)
(* multiply the running total by 0.8 if the letter occurred earlier in the *)
(* word.  The score is the number these steps give, here in 1/625.         *)
(***************************************************************************)
\* The running total after the first `position` letters of the word.
RECURSIVE PenalisedScore(_, _, _)
PenalisedScore(word, pool, position) ==
    IF position = 0 THEN 0
    ELSE LET total == PenalisedScore(word, pool, position - 1)
                        + 625 * Cardinality({k \in DOMAIN pool :
                                                pool[k][position] = word[position]})
         IN  IF \E j \in 1..(position - 1) : word[j] = word[position]
             THEN (4 * total) \div 5
             ELSE total

C23_FrequencyChoice ==
    ScoredCall("frequency") =>
        \E k \in Unguessed :
            /\ result = Returned(vocabulary[k])
            /\ \A j \in Unguessed :
                  LET mine == PenalisedScore(vocabulary[k], possible_words, word_length)
                      other_one == PenalisedScore(vocabulary[j], possible_words, word_length)
                  IN  /\ mine >= other_one
                      /\ j < k => mine > other_one

(***************************************************************************)
(* C24.  The hybrid weights and the min-max normalisation.                 *)
(***************************************************************************)
\* The double 1.0 among the doubles near the tenths.
One == [n |-> 10, d |-> 0]

\* The weight is the double at the tenth or one of its nearest neighbours
\* on either side of it.
NearTenth(weight, tenth) == weight.n = tenth /\ -64 < weight.d /\ weight.d < 64

\* The double as the loop holds it: the distance in units of 2^-56 / 10.
Written(weight) == [tenths |-> weight.n, deviation |-> 2 * weight.d]

\* 0.1 <= weight <= 0.9, as the doubles compare.
InRange(weight) == DoubleAtLeast(weight, Tenths(1)) /\ DoubleAtLeast(Tenths(9), weight)

\* The lists of scores of a hybrid call that reaches the normalisation.
HybridLists ==
    HybridScores(self, possible_words, 1,
        [frequency_scores |-> <<>>, entropy_scores |-> <<>>, candidate_words |-> <<>>])

\* Every normalised score is between 0 and 1, and the scores of a list of
\* equal scores are all 1.
WellNormalized(scores) ==
    LET normalized == Normalized(scores)
    IN  /\ Len(normalized) = Len(scores)
        /\ \A i \in DOMAIN normalized : 0 <= normalized[i] /\ normalized[i] <= 1000
        /\ Cardinality(Range(scores)) = 1 =>
               \A i \in DOMAIN normalized : normalized[i] = 1000

\* C24: at every attempt index the two weights, as computed and divided by
\* their total, are the weights the loop uses and the doubles at
\* max(0.7 - 0.1 * a, 0.1) and min(0.3 + 0.1 * a, 0.9), their sum is the
\* double 1.0, both lie between the doubles 0.1 and 0.9, the entropy
\* weight of the next index is not larger and the frequency weight not
\* smaller; and in a call that normalises its scores each normalised score
\* is between 0 and 1, with a list of equal scores normalised to 1 in
\* every entry.
C24_WeightsAndNormalisation ==
    (pc = "returned" /\ strategy = "hybrid") =>
        LET now == HybridWeights(attempts)
            next == HybridWeights(attempts + 1)
        IN  /\ EntropyWeight(attempts) = Written(now.entropy_weight)
            /\ FrequencyWeight(attempts) = Written(now.frequency_weight)
            /\ NearTenth(now.entropy_weight,
                         IF 7 - attempts > 1 THEN 7 - attempts ELSE 1)
            /\ NearTenth(now.frequency_weight,
                         IF 3 + attempts < 9 THEN 3 + attempts ELSE 9)
            /\ DoublePlus(now.entropy_weight, now.frequency_weight) = One
            /\ InRange(now.entropy_weight)
            /\ InRange(now.frequency_weight)
            /\ DoubleAtLeast(now.entropy_weight, next.entropy_weight)
            /\ DoubleAtLeast(next.frequency_weight, now.frequency_weight)
            /\ (attempts >= 1 /\ Len(possible_words) # 1 /\ Unguessed # {}) =>
                   /\ WellNormalized(HybridLists.frequency_scores)
                   /\ WellNormalized(HybridLists.entropy_scores)

\* C24 witness: a hybrid call at attempt index 4, where the total of the
\* weights is not 1.0 and the division changes both, has returned; its
\* frequency scores are all equal and its entropy scores are not.
C24_Witness ==
    /\ pc = "returned" /\ strategy = "hybrid" /\ attempts = 4
    /\ DoublePlus(RawWeights(attempts).entropy_weight,
                  RawWeights(attempts).frequency_weight) # One
    /\ RawWeights(attempts) # HybridWeights(attempts)
    /\ Len(possible_words) >= 2
    /\ Unguessed # {}
    /\ result.raised = ""
    /\ Cardinality(Range(HybridLists.frequency_scores)) = 1
    /\ Cardinality(Range(HybridLists.entropy_scores)) > 1
    /\ 0 \in Range(Normalized(HybridLists.entropy_scores))
    /\ 1000 \in Range(Normalized(HybridLists.entropy_scores))

(***************************************************************************)
(* C25.  A solve for a target of the vocabulary, with no guess rejected.   *)
(***************************************************************************)
\* The game's target is a word of the strategy's vocabulary and the game
\* has accepted every guess submitted so far.
TargetKnownAndAccepted ==
    /\ game.target_word \in Range(vocabulary)
    /\ rejected = 0
    /\ pc # "raised"

\* C25: in a solve whose target is in the vocabulary and whose guesses are
\* all accepted, the pool holds the target from the copy of the vocabulary
\* on and after every filtering step, so it is never empty and solve never
\* returns for want of candidates; the final guess of the single-candidate
\* branch is the target and is answered as correct; and solve returns None
\* only after six calls of make_guess.
C25_TargetStaysInPool ==
    TargetKnownAndAccepted =>
        /\ pc # "start" => game.target_word \in Range(possible_words)
        /\ pc # "start" => possible_words # <<>>
        /\ ~Stuck
        /\ pc \in {"final", "final_reply"} => final_guess = game.target_word
        /\ pc = "final_reply" => reply.is_correct
        /\ (pc = "returned" /\ ret.word = None) =>
               /\ calls = max_attempts
               /\ Len(game.guesses) = max_attempts
               /\ ret.attempts = max_attempts

\* C25 witness: solve has returned None after six accepted guesses, five
\* of them answered by a filtering step that left the target in the pool;
\* the last left it as the single candidate, with no attempt to guess it.
C25_Witness ==
    /\ TargetKnownAndAccepted
    /\ pc = "returned"
    /\ ret = [word |-> None, attempts |-> max_attempts]
    /\ calls = max_attempts
    /\ possible_words = <<game.target_word>>
    /\ game.target_word \notin Range(game.guesses)

(***************************************************************************)
(* C26.  The guessed word leaves the pool.                                 *)
(***************************************************************************)
\* The pool is the result of filtering by the guess last answered: solve
\* is at the head of the loop or before the final guess, and the last call
\* of make_guess was accepted.
Filtered == pc \in {"loop", "final"} /\ calls > 0 /\ reply.error_msg = ""

\* C26: the pool filtered after an accepted wrong guess does not hold the
\* guess; and while the game has accepted every guess, no word of
\* previous_guesses is in the pool when the next guess is chosen, and the
\* words submitted to the game are all different.
C26_GuessLeavesPool ==
    /\ Filtered => guess \notin Range(possible_words)
    /\ (rejected = 0 /\ pc = "loop") =>
           previous_guesses \cap Range(possible_words) = {}
    /\ rejected = 0 =>
           \A i, j \in DOMAIN game.guesses :
               game.guesses[i] = game.guesses[j] => i = j

====
